---------------------------- MODULE Spec2Model ----------------------------
(***************************************************************************)
(* A model of the pnm crate (bend-n/pnm): the decoding utilities of        *)
(* src/decode.rs and the body codecs of src/ppm.rs, src/pbm.rs and         *)
(* src/pam.rs.                                                             *)
(*                                                                         *)
(* The crate is a library of pure functions over byte slices.  A state of  *)
(* the model is one call in flight: the bytes handed to it, the cursor     *)
(* (the `&mut &[u8]` the parsers advance), the value it returned, and the  *)
(* number of elements a body decoder wrote through its raw pointer against *)
(* the capacity that was allocated for them.  Init draws the input of the  *)
(* call from a bounded set and every action applies one function of the    *)
(* crate to it.                                                            *)
(*                                                                         *)
(* Bytes are the integers 0..255.  u32 and usize values do not fit the     *)
(* integers of TLC, so a number read from or written to a header is kept   *)
(* as the sequence of its base-256 limbs, least significant first, with no *)
(* leading zero limb (a u8 has at most 1 limb, a u32 at most 4, a usize    *)
(* at most 8).                                                             *)
(***************************************************************************)
EXTENDS Integers, Sequences, FiniteSets, TLC

VARIABLES pc, image, bytes, x, ret, wrote, cap

vars == <<pc, image, bytes, x, ret, wrote, cap>>

(***************************************************************************)
(* Sequences                                                               *)
(***************************************************************************)
Min(a, b) == IF a <= b THEN a ELSE b

Take(s, k) == SubSeq(s, 1, Min(k, Len(s)))

Drop(s, k) == SubSeq(s, Min(k, Len(s)) + 1, Len(s))

RECURSIVE SeqsUpTo(_, _)
\* every sequence over S of length at most k
SeqsUpTo(S, k) ==
    IF k = 0 THEN {<<>>}
    ELSE LET shorter == SeqsUpTo(S, k - 1)
         IN  shorter \cup {Append(s, e) : s \in {t \in shorter : Len(t) = k - 1}, e \in S}

\* every sequence over S of length exactly k
SeqsOf(S, k) == {s \in SeqsUpTo(S, k) : Len(s) = k}

RECURSIVE Concat(_)
\* the concatenation of a sequence of sequences
Concat(ss) == IF ss = <<>> THEN <<>> ELSE Head(ss) \o Concat(Tail(ss))

\* slice::chunks_exact(k): the whole chunks of k elements, the remainder dropped
ChunksExact(s, k) == [i \in 1 .. (Len(s) \div k) |-> SubSeq(s, (i - 1) * k + 1, i * k)]

\* slice::chunks(k): the chunks of k elements, the last one possibly shorter
Chunks(s, k) ==
    [i \in 1 .. ((Len(s) + k - 1) \div k) |-> SubSeq(s, (i - 1) * k + 1, Min(i * k, Len(s)))]

(***************************************************************************)
(* Unsigned integers wider than TLC's: base-256 limbs, least significant   *)
(* first, no leading zero limb; zero is the empty sequence.                *)
(***************************************************************************)
Base == 2 ^ 8

RECURSIVE FromInt(_)
FromInt(n) == IF n = 0 THEN <<>> ELSE <<n % Base>> \o FromInt(n \div Base)

RECURSIVE ToInt(_)
\* only for values below 2^31
ToInt(a) == IF a = <<>> THEN 0 ELSE Head(a) + Base * ToInt(Tail(a))

RECURSIVE BigAddC(_, _, _)
BigAddC(a, b, c) ==
    IF a = <<>> /\ b = <<>> THEN (IF c = 0 THEN <<>> ELSE <<c>>)
    ELSE LET da == IF a = <<>> THEN 0 ELSE Head(a)
             db == IF b = <<>> THEN 0 ELSE Head(b)
             ta == IF a = <<>> THEN <<>> ELSE Tail(a)
             tb == IF b = <<>> THEN <<>> ELSE Tail(b)
             s  == da + db + c
         IN  <<s % Base>> \o BigAddC(ta, tb, s \div Base)

BigAdd(a, b) == BigAddC(a, b, 0)

RECURSIVE BigMulSmallC(_, _, _)
\* a * k + c for an a /= 0 and a small k >= 1
BigMulSmallC(a, k, c) ==
    IF a = <<>> THEN FromInt(c)
    ELSE LET p == Head(a) * k + c
         IN  <<p % Base>> \o BigMulSmallC(Tail(a), k, p \div Base)

BigMulSmall(a, k) == IF a = <<>> \/ k = 0 THEN <<>> ELSE BigMulSmallC(a, k, 0)

RECURSIVE BigMul(_, _)
BigMul(a, b) ==
    IF a = <<>> \/ b = <<>> THEN <<>>
    ELSE LET shift(hi) == IF hi = <<>> THEN <<>> ELSE <<0>> \o hi
         IN  BigAdd(BigMulSmall(a, Head(b)), shift(BigMul(a, Tail(b))))

RECURSIVE BigLtSameLen(_, _)
BigLtSameLen(a, b) ==
    IF a = <<>> THEN FALSE
    ELSE LET n == Len(a)
         IN  IF a[n] /= b[n] THEN a[n] < b[n]
             ELSE BigLtSameLen(SubSeq(a, 1, n - 1), SubSeq(b, 1, n - 1))

BigLt(a, b) == IF Len(a) /= Len(b) THEN Len(a) < Len(b) ELSE BigLtSameLen(a, b)

BigLeq(a, b) == ~BigLt(b, a)

RECURSIVE BigNorm(_)
\* a without its leading zero limbs
BigNorm(a) ==
    IF a = <<>> THEN <<>>
    ELSE IF a[Len(a)] = 0 THEN BigNorm(SubSeq(a, 1, Len(a) - 1)) ELSE a

RECURSIVE BigDivSmall(_, _, _)
\* <<quotient limbs, remainder>> of (r * Base^Len(a) + a) by the small k, the
\* limbs of a taken from the most significant one
BigDivSmall(a, k, r) ==
    IF a = <<>> THEN <<(<<>>), r>>
    ELSE LET n        == Len(a)
             cur      == r * Base + a[n]
             join(lo) == <<Append(lo[1], cur \div k), lo[2]>>
         IN  join(BigDivSmall(SubSeq(a, 1, n - 1), k, cur % k))

BigDiv(a, k) == BigNorm(BigDivSmall(a, k, 0)[1])

BigMod(a, k) == BigDivSmall(a, k, 0)[2]

(***************************************************************************)
(* Bytes                                                                   *)
(***************************************************************************)
Byte == 0 .. 255

\* u8::is_ascii_whitespace: space, tab, line feed, form feed, carriage return
is_ascii_whitespace(b) == b \in {32, 9, 10, 12, 13}

\* u8::is_ascii_digit: '0'..'9'
is_ascii_digit(b) == b \in 48 .. 57

\* ASCII of the letters the headers are spelled with
Ascii ==
    [A |-> 65, B |-> 66, C |-> 67, D |-> 68, E |-> 69, G |-> 71, H |-> 72,
     I |-> 73, K |-> 75, L |-> 76, M |-> 77, N |-> 78, P |-> 80, R |-> 82,
     S |-> 83, T |-> 84, U |-> 85, V |-> 86, W |-> 87, X |-> 88, Y |-> 89,
     us |-> 95, sp |-> 32, nl |-> 10, hash |-> 35, zero |-> 48]

(***************************************************************************)
(* src/decode.rs                                                           *)
(***************************************************************************)
\* the errors of decode::Error, as tuples <<name, fields...>>
NotDigit(b) == <<"NotDigit", b>>

WrongMagic(got, should) == <<"WrongMagic", got, should>>

BadMagic(m) == <<"BadMagic", m>>

Err(e) == <<e>>

\* the integer types read_til is instantiated at, by their number of limbs
Limbs(T) == IF T = "u8" THEN 1 ELSE 4

\* <$for>::checked_mul and checked_add: None when the result does not fit T
None == <<"None">>

Some(v) == <<"Some", v>>

\* (mutation of checked_mul: the product wraps around instead of failing)
wrapping_mul(a, b, T) == Some(BigNorm(Take(BigMul(a, b), Limbs(T))))

checked_mul(a, b, T) == LET p == BigMul(a, b) IN IF Len(p) > Limbs(T) THEN None ELSE Some(p)

checked_add(a, b, T) == LET s == BigAdd(a, b) IN IF Len(s) > Limbs(T) THEN None ELSE Some(s)

\* Ten::ten
ten == FromInt(10)

Ok(v, rest) == [tag |-> "Ok", val |-> v, err |-> <<>>, x |-> rest]

Fail(e, rest) == [tag |-> "Err", val |-> <<>>, err |-> e, x |-> rest]

RECURSIVE read_til_loop(_, _, _)
\* the while loop of read_til: s is what is left of the input, n the value so far
read_til_loop(s, n, T) ==
    IF s = <<>> THEN Ok(n, s)
    ELSE LET b    == Head(s)
             rest == Tail(s)
         IN  IF is_ascii_whitespace(b) THEN Ok(n, rest)
             ELSE IF ~is_ascii_digit(b) THEN Fail(NotDigit(b), rest)
             ELSE LET m == checked_mul(n, ten, T)
                      a == IF m[1] = "None" THEN None
                           ELSE checked_add(m[2], FromInt(b - Ascii.zero), T)
                  IN  IF a[1] = "None" THEN Fail(Err("Overflow"), rest)
                      ELSE read_til_loop(rest, a[2], T)

\* (mutation of read_til: the cursor is put back where it was on an error)
read_til_rewind(s, T) ==
    LET r == read_til_loop(s, <<>>, T) IN IF r.tag = "Err" THEN [r EXCEPT !.x = s] ELSE r

\* read_til::<T>(x): T::default() is 0
read_til(s, T) == read_til_loop(s, <<>>, T)

RECURSIVE skip_whitespace(_)
\* while x.first() is whitespace { x.by(); }: what is left of the input
skip_whitespace(s) ==
    IF s /= <<>> /\ is_ascii_whitespace(Head(s)) THEN skip_whitespace(Tail(s)) ELSE s

\* magic(x): the tag after 'P' (None when a byte is missing, when the tag byte
\* is below '0', or when the input ends with the tag or the whitespace after it)
magic(s) ==
    IF s = <<>> THEN [m |-> None, x |-> s]
    ELSE IF Head(s) /= Ascii.P THEN [m |-> None, x |-> Tail(s)]
    ELSE LET s1   == Tail(s)
             m    == IF s1 = <<>> \/ Head(s1) < Ascii.zero THEN None
                     ELSE Some(Head(s1) - Ascii.zero)
             s2   == IF s1 = <<>> THEN s1 ELSE Tail(s1)
             rest == skip_whitespace(s2)
         IN  IF rest = <<>> THEN [m |-> None, x |-> rest] ELSE [m |-> m, x |-> rest]

RECURSIVE skip_line(_)
\* while let Some(b) = x.by() && b != b'\n' {}: through the line feed, or to the end
skip_line(s) ==
    IF s = <<>> THEN s
    ELSE IF Head(s) = Ascii.nl THEN Tail(s) ELSE skip_line(Tail(s))

RECURSIVE skip_comments(_)
\* while x.first() == Some(&b'#') { skip the line }
skip_comments(s) ==
    IF s /= <<>> /\ Head(s) = Ascii.hash THEN skip_comments(skip_line(s)) ELSE s

\* struct Header
Header(m, w, h, max) == [magic |-> m, width |-> w, height |-> h, max |-> max]

\* decode_header: the end of the header, where the body has to begin
decode_header_data(m, w, h, max, rest) ==
    IF m /= 4 /\ rest = <<>> THEN Fail(Err("MissingData"), rest)
    ELSE Ok(Header(m, w.val, h.val, max), rest)

\* a decode_header that reads the max value before it multiplies the
\* dimensions: from the max value on
decode_header_max_first_max(m, w, h, mx) ==
    IF mx.tag = "Err" THEN mx
    ELSE IF checked_mul(w.val, h.val, "u32")[1] = "None"
    THEN Fail(Err("TooLarge"), mx.x)
    ELSE decode_header_data(m, w, h, IF m /= 4 /\ m /= 1 THEN Some(mx.val) ELSE None,
                            IF m /= 4 THEN skip_whitespace(mx.x) ELSE mx.x)

\* the same, from the height on
decode_header_max_first_height(m, w, h) ==
    IF h.tag = "Err" THEN h
    ELSE IF h.val = <<>> THEN Fail(Err("ZeroHeight"), h.x)
    ELSE decode_header_max_first_max(m, w, h, IF m /= 4 /\ m /= 1 THEN read_til(h.x, "u8")
                                              ELSE Ok(<<>>, h.x))

\* the same, from the width on
decode_header_max_first_width(m, w) ==
    IF w.tag = "Err" THEN w
    ELSE IF w.val = <<>> THEN Fail(Err("ZeroWidth"), w.x)
    ELSE decode_header_max_first_height(m, w, read_til(w.x, "u32"))

\* the same, whole
decode_header_max_first(s, m) ==
    decode_header_max_first_width(m, read_til(skip_comments(s), "u32"))

\* (mutation of decode_header: the whitespace before the data is skipped for
\* the raw bitmap too)
decode_header_after_max_skip_all(m, w, h, mx) ==
    IF mx.tag = "Err" THEN mx
    ELSE decode_header_data(m, w, h, IF m /= 4 /\ m /= 1 THEN Some(mx.val) ELSE None,
                            skip_whitespace(mx.x))

\* decode_header: the max value read (or skipped), then the whitespace
decode_header_after_max(m, w, h, mx) ==
    IF mx.tag = "Err" THEN mx
    ELSE decode_header_data(m, w, h, IF m /= 4 /\ m /= 1 THEN Some(mx.val) ELSE None,
                            IF m /= 4 THEN skip_whitespace(mx.x) ELSE mx.x)

\* decode_header: the height read, checked, multiplied
decode_header_after_height(m, w, h) ==
    IF h.tag = "Err" THEN h
    ELSE IF h.val = <<>> THEN Fail(Err("ZeroHeight"), h.x)
    ELSE IF checked_mul(w.val, h.val, "u32")[1] = "None"
    THEN Fail(Err("TooLarge"), h.x)
    ELSE decode_header_after_max(m, w, h, IF m /= 4 /\ m /= 1 THEN read_til(h.x, "u8")
                                          ELSE Ok(<<>>, h.x))

\* decode_header: the width read and checked
decode_header_after_width(m, w) ==
    IF w.tag = "Err" THEN w
    ELSE IF w.val = <<>> THEN Fail(Err("ZeroWidth"), w.x)
    ELSE decode_header_after_height(m, w, read_til(w.x, "u32"))

\* decode_header(x, magic)
\* (every step is an operator of the value read before it: width, height, max)
decode_header(s, m) ==
    decode_header_after_width(m, read_til(skip_comments(s), "u32"))

(***************************************************************************)
(* Images (fimg::Image<_, CHANNELS>) and what a body decoder leaves behind *)
(***************************************************************************)
Image(w, h, c, buf) == [width |-> w, height |-> h, chan |-> c, buf |-> buf]

NoImage == Image(<<>>, <<>>, 0, <<>>)

\* the number of samples of an image of these dimensions
ImageLen(w, h, c) == BigMulSmall(BigMul(w, h), c)

\* .take(n as usize) on an iterator that has `have` items left
TakeCount(n, have) == IF BigLt(FromInt(have), n) THEN have ELSE ToInt(n)

\* a body decoder's return: out is what it wrote through the raw pointer into a
\* buffer allocated for cap elements
BodyOk(img, out, n) ==
    [tag |-> "Ok", val |-> img, err |-> <<>>, wrote |-> Len(out), cap |-> n]

BodyFail(e, out, n) ==
    [tag |-> "Err", val |-> NoImage, err |-> Err(e), wrote |-> Len(out), cap |-> n]

\* an error raised before any buffer is allocated
EarlyFail(e) == [tag |-> "Err", val |-> NoImage, err |-> e, wrote |-> 0, cap |-> <<>>]

(***************************************************************************)
(* crate::encode (not among the source files): encodeu32 writes a number   *)
(* in ASCII decimal; P::push and P::put write at the pointer and advance   *)
(* it, P::copy_from writes without advancing it.                           *)
(***************************************************************************)
RECURSIVE encodeu32(_)
encodeu32(n) ==
    LET d       == <<Ascii.zero + BigMod(n, 10)>>
        front(q) == IF q = <<>> THEN d ELSE encodeu32(q) \o d
    IN  front(BigDiv(n, 10))

\* the length of the array encode_ returns for a sample (three digits and a
\* space, the '255 ' of ppm::plain::size)
encode_N == 4

(***************************************************************************)
(* src/ppm.rs, mod raw                                                     *)
(***************************************************************************)
ppm_raw_MAGIC == 6

\* raw::encode_into up to the copy of the buffer: "P6 <width> <height> 255\n"
ppm_raw_header(w, h) ==
    <<Ascii.P, ppm_raw_MAGIC + Ascii.zero>> \o <<Ascii.sp>> \o encodeu32(w)
        \o <<Ascii.sp>> \o encodeu32(h) \o <<32, 50, 53, 53, 10>>

\* raw::encode_into: the bytes written at out
ppm_raw_encode_into_out(img) == ppm_raw_header(img.width, img.height) \o img.buf

\* raw::encode_into: its return, o.offset_from_unsigned(out) + x.len()
ppm_raw_encode_into_n(w, h) ==
    BigAdd(FromInt(Len(ppm_raw_header(w, h))), ImageLen(w, h, 3))

\* raw::size
ppm_raw_size(w, h) == BigAdd(FromInt(2 + 23), ImageLen(w, h, 3))

\* raw::encode: the Vec, of the length encode_into returned
ppm_raw_encode(img) == ppm_raw_encode_into_out(img)

\* raw::decode_body_into
ppm_raw_decode_body_into(s, w, h) ==
    LET pixels == BigMul(w, h)
        taken  == TakeCount(pixels, Len(s) \div 3)
        out    == Take(s, 3 * taken)
        n      == ImageLen(w, h, 3)
    IN  IF BigLt(FromInt(Len(out)), BigMulSmall(pixels, 3))
        THEN BodyFail("MissingData", out, n)
        ELSE BodyOk(Image(w, h, 3, out), out, n)

(***************************************************************************)
(* src/pbm.rs, mod raw                                                     *)
(***************************************************************************)
pbm_raw_MAGIC == 4

\* "P4 <width> <height>\n"
pbm_raw_header(w, h) ==
    <<Ascii.P, pbm_raw_MAGIC + Ascii.zero>> \o <<Ascii.sp>> \o encodeu32(w)
        \o <<Ascii.sp>> \o encodeu32(h) \o <<Ascii.nl>>

RECURSIVE pack(_, _)
\* the fold of raw::encode_into over the (bit, i) pairs from pair i on:
\* acc | (x as u8) << 7 - i
pack(chunk, i) ==
    IF i >= Len(chunk) THEN 0
    ELSE (IF chunk[i + 1] THEN 2 ^ (7 - i) ELSE 0) + pack(chunk, i + 1)

\* raw::encode_into, the rows: every row of width pixels in chunks of 8, every
\* chunk (the last one filled up with false) folded into one byte
pbm_raw_rows(buf, width) ==
    Concat([r \in 1 .. (Len(buf) \div width) |->
               LET row == SubSeq(buf, (r - 1) * width + 1, r * width)
                   cs  == Chunks(row, 8)
               IN  [c \in 1 .. Len(cs) |-> pack(cs[c], 0)]])

\* raw::encode_into: the bytes written at out
pbm_raw_encode_into_out(img) ==
    pbm_raw_header(img.width, img.height) \o pbm_raw_rows(img.buf, ToInt(img.width))

\* raw::encode: the Vec, of the length encode_into returned
pbm_raw_encode(img) == pbm_raw_encode_into_out(img)

\* atools::range::<8>().rev().map(|x| b & (1 << x) != 0): the bits of a byte,
\* the most significant first
expand(b) == [i \in 1 .. 8 |-> (b \div 2 ^ (8 - i)) % 2 = 1]

\* raw::decode_body_into: the bits in chunks of width + width % 8, the first
\* width bits of up to `pixels` chunks pushed at out
pbm_raw_decode_body_into(s, w, h) ==
    LET pixels  == BigMul(w, h)
        width   == ToInt(w)
        padding == width % 8
        bits    == Concat([i \in 1 .. Len(s) |-> expand(s[i])])
        rows    == ChunksExact(bits, width + padding)
        taken   == TakeCount(pixels, Len(rows))
        out     == Concat([i \in 1 .. taken |-> Take(rows[i], width)])
        n       == ImageLen(w, h, 1)
    IN  IF BigLt(FromInt(Len(out)), pixels)
        THEN BodyFail("MissingData", out, n)
        ELSE BodyOk(Image(w, h, 1, out), out, n)

\* raw::decode_body_into_u8: as decode_body_into with the bits inverted
\* (b & (1 << x) == 0) and mapped to x as u8 * 0xff
pbm_raw_decode_body_into_u8(s, w, h) ==
    LET pixels  == BigMul(w, h)
        width   == ToInt(w)
        padding == width % 8
        bits    == Concat([i \in 1 .. Len(s) |-> expand(s[i])])
        rows    == ChunksExact(bits, width + padding)
        taken   == TakeCount(pixels, Len(rows))
        picked  == Concat([i \in 1 .. taken |-> Take(rows[i], width)])
        out     == [i \in 1 .. Len(picked) |-> IF ~picked[i] THEN 255 ELSE 0]
        n       == ImageLen(w, h, 1)
    IN  IF BigLt(FromInt(Len(out)), pixels)
        THEN BodyFail("MissingData", out, n)
        ELSE BodyOk(Image(w, h, 1, out), out, n)

\* raw::encode_into: its return, o.sub_ptr(out): the header and, for every row,
\* one byte per chunk of 8 pixels
pbm_raw_encode_into_n(w, h) ==
    BigAdd(FromInt(Len(pbm_raw_header(w, h))), BigMul(h, BigDiv(BigAdd(w, FromInt(7)), 8)))

\* raw::size
pbm_raw_size(w, h) ==
    BigAdd(BigAdd(FromInt(2 + 23), BigDiv(ImageLen(w, h, 1), 8)),
           IF BigMod(w, 8) /= 0 THEN h ELSE <<>>)

(***************************************************************************)
(* src/pbm.rs, mod plain                                                   *)
(***************************************************************************)
pbm_plain_MAGIC == 1

\* the bytes b'0' | b'1' of the body, in order
ZeroOne(s) == SelectSeq(s, LAMBDA b : b \in {48, 49})

\* plain::decode_body_into: the first `pixels` bytes that are '0' or '1'
pbm_plain_decode_body_into(s, w, h) ==
    LET pixels == BigMul(w, h)
        found  == ZeroOne(s)
        taken  == Take(found, TakeCount(pixels, Len(found)))
        out    == [i \in 1 .. Len(taken) |-> taken[i] = 49]
        n      == ImageLen(w, h, 1)
    IN  IF BigLt(FromInt(Len(out)), pixels)
        THEN BodyFail("MissingData", out, n)
        ELSE BodyOk(Image(w, h, 1, out), out, n)

\* plain::decode_body_into_u8: (b == b'0') as u8 * 0xff
pbm_plain_decode_body_into_u8(s, w, h) ==
    LET pixels == BigMul(w, h)
        found  == ZeroOne(s)
        taken  == Take(found, TakeCount(pixels, Len(found)))
        out    == [i \in 1 .. Len(taken) |-> IF taken[i] = 48 THEN 255 ELSE 0]
        n      == ImageLen(w, h, 1)
    IN  IF BigLt(FromInt(Len(out)), pixels)
        THEN BodyFail("MissingData", out, n)
        ELSE BodyOk(Image(w, h, 1, out), out, n)

\* "P1 <width> <height>\n"
pbm_plain_header(w, h) ==
    <<Ascii.P, pbm_plain_MAGIC + Ascii.zero>> \o <<Ascii.sp>> \o encodeu32(w)
        \o <<Ascii.sp>> \o encodeu32(h) \o <<Ascii.nl>>

\* plain::encode_into: its return, o.sub_ptr(out): the header and, for every
\* row, the byte of encode_bool and a space per pixel and a line feed
pbm_plain_encode_into_n(w, h) ==
    BigAdd(FromInt(Len(pbm_plain_header(w, h))),
           BigMul(h, BigAdd(BigMulSmall(w, 2), FromInt(1))))

\* plain::size
pbm_plain_size(w, h) ==
    BigAdd(BigAdd(FromInt(2 + 23), h), BigMulSmall(ImageLen(w, h, 1), 2))

(***************************************************************************)
(* src/ppm.rs, mod plain                                                   *)
(***************************************************************************)
ppm_plain_MAGIC == 3

RECURSIVE split(_, _)
\* x.split(u8::is_ascii_whitespace): the runs between whitespace bytes, empty
\* runs included; cur is the run being read
split(s, cur) ==
    IF s = <<>> THEN <<cur>>
    ELSE IF is_ascii_whitespace(Head(s)) THEN <<cur>> \o split(Tail(s), <<>>)
    ELSE split(Tail(s), Append(cur, Head(s)))

RECURSIVE try_fold(_, _)
\* x.iter().try_fold(0u8, |acc, &x| acc.checked_mul(10)?.checked_add(x - b'0'))
try_fold(t, acc) ==
    IF t = <<>> THEN Some(acc)
    ELSE IF acc * 10 > 255 \/ acc * 10 + (Head(t) - 48) > 255 THEN None
    ELSE try_fold(Tail(t), acc * 10 + (Head(t) - 48))

\* q + r / d rounded to the nearest integer, ties to even: the mantissa of
\* the nearest f32, as <<m, e>> with 2^23 <= m < 2^24 and value m / 2^e
f32_round(q, r, d, e) ==
    IF ~(2 * r > d \/ (2 * r = d /\ q % 2 = 1)) THEN <<q, e>>
    ELSE IF q + 1 = 2 ^ 24 THEN <<2 ^ 23, e - 1>>
    ELSE <<q + 1, e>>

\* the f32 nearest to num / den for 1 <= num, den <= 255: num * 2^e / den with
\* the e that brings the quotient into 2^23 .. 2^24 - 1
f32_div(num, den) ==
    LET scaled(k)  == BigMulSmall(FromInt(2 ^ (k - 8)), num * (2 ^ 8))
        normal(q)  == Len(q) = 3 /\ q[3] >= 128
        quot(a, e) == f32_round(ToInt(BigDiv(a, den)), BigMod(a, den), den, e)
        at(e)      == quot(scaled(e), e)
    IN  at(CHOOSE k \in 16 .. 31 : normal(BigDiv(scaled(k), den)))

\* the f32 nearest to (m / 2^e) * 255.
f32_mul255(f) ==
    LET quot(a, k) == f32_round(ToInt(BigDiv(a, 2 ^ k)), BigMod(a, 2 ^ k), 2 ^ k, f[2] - k)
        at(a)      == quot(a, IF Len(a) = 4 /\ a[4] >= 128 THEN 8 ELSE 7)
    IN  at(BigMulSmall(FromInt(f[1]), 255))

\* f32 as u8: truncated toward zero and saturated
f32_as_u8(f) == Min(f[1] \div (2 ^ f[2]), 255)

\* ((x as f32 / max as f32) * 255.) as u8; x / 0 is +inf for x > 0 (as u8: 255)
\* and NaN for x = 0 (as u8: 0)
rescale(v, max) ==
    IF v = 0 THEN 0
    ELSE IF max = 0 THEN 255
    ELSE f32_as_u8(f32_mul255(f32_div(v, max)))

\* plain::decode_body_into, the iterator before .array_chunks(): the whitespace
\* separated runs of 1 to 3 digits that spell a u8, rescaled
ppm_plain_samples(s, max) ==
    LET scale(v)     == IF max = 255 THEN v ELSE rescale(v, max)
        mapped(vals) == [i \in 1 .. Len(vals) |-> scale(vals[i][2])]
        folded(runs) ==
            mapped(SelectSeq([i \in 1 .. Len(runs) |-> try_fold(runs[i], 0)],
                             LAMBDA o : o[1] = "Some"))
    IN  folded(SelectSeq(split(s, <<>>),
                         LAMBDA t : /\ t /= <<>>
                                    /\ Len(t) <= 3
                                    /\ \A i \in 1 .. Len(t) : is_ascii_digit(t[i])))

\* plain::decode_body_into: the samples three by three, up to `pixels` of them
ppm_plain_decode_body_into(s, w, h, max) ==
    LET done(pixels, out, n) ==
            IF BigLt(FromInt(Len(out)), BigMulSmall(pixels, 3))
            THEN BodyFail("MissingData", out, n)
            ELSE BodyOk(Image(w, h, 3, out), out, n)
        taken(pixels, vals) ==
            done(pixels, Take(vals, 3 * TakeCount(pixels, Len(vals) \div 3)), ImageLen(w, h, 3))
    IN  taken(BigMul(w, h), ppm_plain_samples(s, max))

\* "P3 <width> <height> 255\n"
ppm_plain_header(w, h) ==
    <<Ascii.P, ppm_plain_MAGIC + Ascii.zero>> \o <<Ascii.sp>> \o encodeu32(w)
        \o <<Ascii.sp>> \o encodeu32(h) \o <<32, 50, 53, 53, 10>>

\* plain::encode_into: its return: the header and, for every row, the array of
\* encode_ per sample and a line feed
ppm_plain_encode_into_n(w, h) ==
    BigAdd(FromInt(Len(ppm_plain_header(w, h))),
           BigMul(h, BigAdd(BigMulSmall(BigMulSmall(w, 3), encode_N), FromInt(1))))

\* plain::size
ppm_plain_size(w, h) ==
    BigAdd(BigAdd(FromInt(2 + 23), h), BigMulSmall(ImageLen(w, h, 3), 4))

(***************************************************************************)
(* src/pam.rs                                                              *)
(***************************************************************************)
pam_MAGIC == 7

\* the keys and the tupltype names, as bytes
Lit ==
    [WIDTH    |-> <<87, 73, 68, 84, 72, 32>>,
     HEIGHT   |-> <<72, 69, 73, 71, 72, 84, 32>>,
     DEPTH    |-> <<68, 69, 80, 84, 72, 32>>,
     MAXVAL   |-> <<77, 65, 88, 86, 65, 76, 32>>,
     TUPLTYPE |-> <<84, 85, 80, 76, 84, 89, 80, 69, 32>>,
     ENDHDR   |-> <<10, 69, 78, 68, 72, 68, 82, 10>>,
     BLACKANDWHITE |-> <<66, 76, 65, 67, 75, 65, 78, 68, 87, 72, 73, 84, 69>>,
     GRAYSCALE     |-> <<71, 82, 65, 89, 83, 67, 65, 76, 69>>,
     RGB           |-> <<82, 71, 66>>,
     ALPHA         |-> <<95, 65, 76, 80, 72, 65>>]

\* encode_into up to the body: "P7\nWIDTH <w>\nHEIGHT <h>\nDEPTH <depth>\n
\* MAXVAL 255\nTUPLTYPE <tupltype>\nENDHDR\n"
pam_header(w, h, tupltype, depth) ==
    <<Ascii.P, pam_MAGIC + Ascii.zero>>
        \o <<Ascii.nl>> \o Lit.WIDTH \o encodeu32(w)
        \o <<Ascii.nl>> \o Lit.HEIGHT \o encodeu32(h)
        \o <<Ascii.nl>> \o Lit.DEPTH \o <<depth + Ascii.zero>>
        \o <<Ascii.nl>> \o Lit.MAXVAL \o <<50, 53, 53, 10>>
        \o Lit.TUPLTYPE \o tupltype
        \o Lit.ENDHDR

\* enum Type
Type == {"Bit", "Y", "RGB", "BitA", "YA", "RGBA"}

\* the name a tupltype is spelled with in a header
TupltypeName(t) ==
    CASE t = "Bit"  -> Lit.BLACKANDWHITE
      [] t = "BitA" -> Lit.BLACKANDWHITE \o Lit.ALPHA
      [] t = "Y"    -> Lit.GRAYSCALE
      [] t = "YA"   -> Lit.GRAYSCALE \o Lit.ALPHA
      [] t = "RGB"  -> Lit.RGB
      [] t = "RGBA" -> Lit.RGB \o Lit.ALPHA

\* Type::bytes
Type_bytes(t) ==
    CASE t \in {"Bit", "Y"}   -> 1
      [] t \in {"BitA", "YA"} -> 2
      [] t = "RGB"            -> 3
      [] t = "RGBA"           -> 4

\* struct PAMHeader
PAMHeader(w, h, depth, max, t) ==
    [width |-> w, height |-> h, depth |-> depth, max |-> max, tupltype |-> t]

\* (mutation of test!: the literal is compared without its last byte)
test_unspaced(s, lit, e) ==
    IF Len(s) < Len(lit) THEN Fail(Err(e), <<>>)
    ELSE IF Take(s, Len(lit) - 1) /= Take(lit, Len(lit) - 1) THEN Fail(Err(e), Drop(s, Len(lit)))
    ELSE Ok(<<>>, Drop(s, Len(lit)))

\* x.rd::<N>() compared with a literal (the macro test!): read_exact takes N
\* bytes, or fails at the end of the input, which it has then consumed
test(s, lit, e) ==
    IF Len(s) < Len(lit) THEN Fail(Err(e), <<>>)
    ELSE IF Take(s, Len(lit)) /= lit THEN Fail(Err(e), Drop(s, Len(lit)))
    ELSE Ok(<<>>, Drop(s, Len(lit)))

\* x.iter().position(|&x| x == b'\n'), counted from 0
position_nl(s) ==
    IF \E i \in 1 .. Len(s) : s[i] = Ascii.nl
    THEN Some((CHOOSE i \in 1 .. Len(s) : s[i] = Ascii.nl /\ \A j \in 1 .. i - 1 : s[j] /= Ascii.nl) - 1)
    ELSE None

\* decode_pam_header: ENDHDR after the tupltype
decode_pam_header_endhdr(w, h, depth, max, tupltype, e) ==
    IF e.tag = "Err" THEN e ELSE Ok(PAMHeader(w, h, depth, max, tupltype), e.x)

\* decode_pam_header: the tupltype up to the end of its line
decode_pam_header_name(w, h, depth, max, k, end) ==
    IF end[1] = "None" THEN Fail(Err("MissingTupltype"), k.x)
    ELSE IF \A t \in Type : TupltypeName(t) /= Take(k.x, end[2])
    THEN Fail(Err("MissingTupltype"), k.x)
    ELSE decode_pam_header_endhdr(w, h, depth, max,
             CHOOSE t \in Type : TupltypeName(t) = Take(k.x, end[2]),
             test(Drop(k.x, end[2]), Lit.ENDHDR, "MissingData"))

\* decode_pam_header: after the TUPLTYPE key
decode_pam_header_tupltype_key(w, h, depth, max, k) ==
    IF k.tag = "Err" THEN k ELSE decode_pam_header_name(w, h, depth, max, k, position_nl(k.x))

\* decode_pam_header, from the tupltype on
decode_pam_header_tupltype(s, w, h, depth, max) ==
    decode_pam_header_tupltype_key(w, h, depth, max, test(s, Lit.TUPLTYPE, "MissingTupltype"))

\* decode_pam_header: the max value read
decode_pam_header_after_max(w, h, depth, max) ==
    IF max.tag = "Err" THEN max
    ELSE decode_pam_header_tupltype(max.x, w, h, depth.val, max.val)

\* decode_pam_header: after the MAXVAL key
decode_pam_header_maxval(w, h, depth, k) ==
    IF k.tag = "Err" THEN k ELSE decode_pam_header_after_max(w, h, depth, read_til(k.x, "u8"))

\* decode_pam_header: the depth read
decode_pam_header_after_depth(w, h, depth) ==
    IF depth.tag = "Err" THEN depth
    ELSE decode_pam_header_maxval(w, h, depth, test(depth.x, Lit.MAXVAL, "MissingMax"))

\* decode_pam_header: after the DEPTH key
decode_pam_header_depth_key(w, h, k) ==
    IF k.tag = "Err" THEN k ELSE decode_pam_header_after_depth(w, h, read_til(k.x, "u8"))

\* decode_pam_header, from the depth on
decode_pam_header_depth(s, w, h) ==
    decode_pam_header_depth_key(w, h, test(s, Lit.DEPTH, "MissingDepth"))

\* decode_pam_header: the height read, checked, multiplied
decode_pam_header_after_height(w, h) ==
    IF h.tag = "Err" THEN h
    ELSE IF h.val = <<>> THEN Fail(Err("ZeroHeight"), h.x)
    ELSE IF checked_mul(w.val, h.val, "u32")[1] = "None"
    THEN Fail(Err("TooLarge"), h.x)
    ELSE decode_pam_header_depth(h.x, w.val, h.val)

\* decode_pam_header: after the HEIGHT key
decode_pam_header_height(w, k) ==
    IF k.tag = "Err" THEN k ELSE decode_pam_header_after_height(w, read_til(k.x, "u32"))

\* decode_pam_header: the width read and checked
decode_pam_header_after_width(w) ==
    IF w.tag = "Err" THEN w
    ELSE IF w.val = <<>> THEN Fail(Err("ZeroWidth"), w.x)
    ELSE decode_pam_header_height(w, test(w.x, Lit.HEIGHT, "MissingHeight"))

\* decode_pam_header: after the WIDTH key
decode_pam_header_width(k) ==
    IF k.tag = "Err" THEN k ELSE decode_pam_header_after_width(read_til(k.x, "u32"))

\* decode_pam_header(x)
\* (every step is an operator of the value read before it)
decode_pam_header(s) == decode_pam_header_width(test(s, Lit.WIDTH, "MissingWidth"))

\* the encoders of the module: PAM::encode for 1 to 4 channels and
\* PAMBit::encode_bitmap, with the tupltype and the depth each hands to encode_into
PamEncoders ==
    {[name |-> "encode", chan |-> 1, tupltype |-> Lit.GRAYSCALE, depth |-> 1],
     [name |-> "encode_bitmap", chan |-> 1, tupltype |-> Lit.BLACKANDWHITE, depth |-> 1],
     [name |-> "encode", chan |-> 2, tupltype |-> Lit.GRAYSCALE \o Lit.ALPHA, depth |-> 2],
     [name |-> "encode", chan |-> 3, tupltype |-> Lit.RGB, depth |-> 3],
     [name |-> "encode", chan |-> 4, tupltype |-> Lit.RGB \o Lit.ALPHA, depth |-> 2]}

\* encode_into: its return, the header and buf.len() bytes
pam_encode_into_n(w, h, e) ==
    BigAdd(FromInt(Len(pam_header(w, h, e.tupltype, e.depth))), ImageLen(w, h, e.chan))

\* size(x) for the bytes of the image
pam_size(w, h, e) == BigAdd(FromInt(92), ImageLen(w, h, e.chan))

\* u8::saturating_mul(0xff)
saturating_mul_ff(b) == IF b = 0 THEN 0 ELSE 255

\* decode_inner: what it pushes, puts or copies at `into`
decode_inner_out(s, header) ==
    LET n == ImageLen(header.width, header.height, Type_bytes(header.tupltype))
    IN  CASE header.tupltype = "Bit" ->
                 LET taken == Take(s, TakeCount(n, Len(s)))
                 IN  [i \in 1 .. Len(taken) |-> saturating_mul_ff(taken[i])]
          [] header.tupltype = "BitA" ->
                 LET pairs == TakeCount(BigMul(header.width, header.height), Len(s) \div 2)
                 IN  [i \in 1 .. 2 * pairs |->
                         IF i % 2 = 1 THEN saturating_mul_ff(s[i]) ELSE s[i]]
          [] OTHER ->
                 IF BigLt(FromInt(Len(s)), n) THEN <<>> ELSE Take(s, ToInt(n))

\* decode_inner: Ok(n), or MissingData for the four copied types on a short body
decode_inner(s, header) ==
    LET n   == ImageLen(header.width, header.height, Type_bytes(header.tupltype))
        out == decode_inner_out(s, header)
    IN  IF header.tupltype \notin {"Bit", "BitA"} /\ BigLt(FromInt(Len(s)), n)
        THEN BodyFail("MissingData", out, n)
        ELSE BodyOk(n, out, n)

\* the number of channels of the DynImage variant decode_wo_magic builds
Channels(t) ==
    CASE t \in {"Bit", "Y"}   -> 1
      [] t \in {"BitA", "YA"} -> 2
      [] t = "RGB"            -> 3
      [] t = "RGBA"           -> 4

\* pam::decode_wo_magic: the capacity of the Vec, bytes * width * height
pam_decode_wo_magic_alloc(header) ==
    ImageLen(header.width, header.height, Type_bytes(header.tupltype))

\* pam::decode_wo_magic: the Vec is given the length decode_inner returned
pam_decode_wo_magic_image(header, body, r) ==
    IF r.tag = "Err" THEN [r EXCEPT !.cap = pam_decode_wo_magic_alloc(header)]
    ELSE [tag   |-> "Ok",
          val   |-> Image(header.width, header.height, Channels(header.tupltype),
                          decode_inner_out(body, header)),
          err   |-> <<>>,
          wrote |-> r.wrote,
          cap   |-> pam_decode_wo_magic_alloc(header)]

\* pam::decode_wo_magic: the header decoded
pam_decode_wo_magic_body(header) ==
    IF header.tag = "Err" THEN EarlyFail(header.err)
    ELSE pam_decode_wo_magic_image(header.val, header.x, decode_inner(header.x, header.val))

\* pam::decode_wo_magic
pam_decode_wo_magic(s) == pam_decode_wo_magic_body(decode_pam_header(s))

\* pam::decode: the result of magic is dropped
pam_decode(s) == pam_decode_wo_magic(magic(s).x)

(***************************************************************************)
(* src/decode.rs, dec_fn!: the decode and decode_wo_magic of each module   *)
(* that invokes the macro, named here by its path                          *)
(***************************************************************************)
\* the MAGIC the macro finds in scope
MAGIC(codec) ==
    CASE codec = "ppm::raw" -> ppm_raw_MAGIC
      [] codec = "pbm::raw" -> pbm_raw_MAGIC
      [] codec = "ppm::plain" -> ppm_plain_MAGIC
      [] codec = "pbm::plain" -> pbm_plain_MAGIC

\* the decode_body_into the macro finds in scope, called as the macro calls it
\* (the max value is passed on where the macro is invoked with `max`)
decode_body_into(codec, s, header) ==
    CASE codec = "ppm::raw" -> ppm_raw_decode_body_into(s, header.width, header.height)
      [] codec = "pbm::raw" -> pbm_raw_decode_body_into(s, header.width, header.height)
      [] codec = "ppm::plain" ->
             ppm_plain_decode_body_into(s, header.width, header.height, ToInt(header.max[2]))
      [] codec = "pbm::plain" -> pbm_plain_decode_body_into(s, header.width, header.height)

\* dec_fn!: decode_wo_magic, the header decoded
dec_fn_decode_wo_magic_body(codec, header) ==
    IF header.tag = "Err" THEN EarlyFail(header.err)
    ELSE decode_body_into(codec, header.x, header.val)

\* dec_fn!: decode_wo_magic
dec_fn_decode_wo_magic(s, codec) ==
    dec_fn_decode_wo_magic_body(codec, decode_header(s, MAGIC(codec)))

\* dec_fn!: decode, the magic number read
dec_fn_decode_checked(codec, m) ==
    IF m.m[1] = "None" THEN EarlyFail(Err("MissingMagic"))
    ELSE IF m.m[2] /= MAGIC(codec) THEN EarlyFail(WrongMagic(m.m[2], MAGIC(codec)))
    ELSE dec_fn_decode_wo_magic(m.x, codec)

\* dec_fn!: decode
dec_fn_decode(s, codec) == dec_fn_decode_checked(codec, magic(s))

\* ppm::raw::decode
ppm_raw_decode(s) == dec_fn_decode(s, "ppm::raw")

\* pbm::raw::decode
pbm_raw_decode(s) == dec_fn_decode(s, "pbm::raw")

\* ppm::plain::decode
ppm_plain_decode(s) == dec_fn_decode(s, "ppm::plain")

\* pbm::plain::decode
pbm_plain_decode(s) == dec_fn_decode(s, "pbm::plain")

(***************************************************************************)
(* The calls: what every specification's actions leave behind              *)
(***************************************************************************)
NoRet == [tag |-> "None", val |-> <<>>, err |-> <<>>]

Returned(r) == [tag |-> r.tag, val |-> r.val, err |-> r.err]

\* the process died (a fault, or an allocator abort on the corrupted heap)
Aborted == [tag |-> "Abort", val |-> NoImage, err |-> <<>>, wrote |-> 0, cap |-> <<>>]

\* values a byte of the buffer that was never written may show
UninitSample == {0, 170}

\* What a caller of a decoder may observe.  A decoder that pushed more elements
\* than the buffer holds has written out of bounds: the call may return with
\* the buffer holding the first elements, or the process may die.  A decoder
\* that returns Ok having pushed fewer elements than the buffer holds exposes
\* the unwritten tail, which may show any values.  Every other return is what
\* the decoder computed.
Outcomes(r) ==
    IF BigLt(r.cap, FromInt(r.wrote))
    THEN {[r EXCEPT !.val.buf = Take(r.val.buf, ToInt(r.cap))],
          [Aborted EXCEPT !.wrote = r.wrote, !.cap = r.cap]}
    ELSE IF r.tag = "Ok" /\ BigLt(FromInt(r.wrote), r.cap)
    THEN {[r EXCEPT !.val.buf = r.val.buf \o t]
              : t \in SeqsOf(UninitSample, ToInt(r.cap) - r.wrote)}
    ELSE {r}

(***************************************************************************)
(* SpecNum: read_til on a number followed by a tail                        *)
(***************************************************************************)
\* the longest number of digits drawn freely, and the longest tail after them
MaxDigits == 3

MaxTail == 2

\* digits that spell the values around u8::MAX (255, 256, 260, ...)
DigitSample == {48, 50, 53, 54}

\* the first nine digits of u32::MAX = 4294967295: with one more digit the
\* numbers around it
U32Prefix == <<52, 50, 57, 52, 57, 54, 55, 50, 57>>

\* a whitespace byte and a byte that is neither a digit nor whitespace
TailSample == {32, 120}

NumInputs ==
    {pre \o d \o t : pre \in {<<>>, U32Prefix},
                     d \in SeqsUpTo(DigitSample, MaxDigits),
                     t \in SeqsUpTo(TailSample, MaxTail)}

InitNum ==
    /\ pc = "start"
    /\ image = NoImage
    /\ bytes \in NumInputs
    /\ x = bytes
    /\ ret = NoRet
    /\ wrote = 0
    /\ cap = <<>>

\* let n: u8 = read_til(&mut x)
ReadTilU8 ==
    /\ pc = "start"
    /\ \E r \in {read_til(x, "u8")} :
           /\ x' = r.x
           /\ ret' = Returned(r)
    /\ pc' = "read_til_u8"
    /\ UNCHANGED <<image, bytes, wrote, cap>>

\* let n: u32 = read_til(&mut x)
ReadTilU32 ==
    /\ pc = "start"
    /\ \E r \in {read_til(x, "u32")} :
           /\ x' = r.x
           /\ ret' = Returned(r)
    /\ pc' = "read_til_u32"
    /\ UNCHANGED <<image, bytes, wrote, cap>>

NextNum == ReadTilU8 \/ ReadTilU32

SpecNum == InitNum /\ [][NextNum]_vars

(***************************************************************************)
(* What the claims about read_til speak of, stated without read_til        *)
(***************************************************************************)
RECURSIVE DigitPrefix(_)
\* the digits an input starts with
DigitPrefix(s) ==
    IF s = <<>> \/ ~is_ascii_digit(Head(s)) THEN <<>> ELSE <<Head(s)>> \o DigitPrefix(Tail(s))

RECURSIVE Pow10(_)
Pow10(k) == IF k = 0 THEN FromInt(1) ELSE BigMulSmall(Pow10(k - 1), 10)

RECURSIVE DecVal(_)
\* the number a string of digits spells: each digit times the power of ten of its place
DecVal(d) ==
    IF d = <<>> THEN <<>>
    ELSE BigAdd(BigMulSmall(Pow10(Len(d) - 1), Head(d) - 48), DecVal(Tail(d)))

\* u8::MAX = 255 and u32::MAX = 4294967295
MaxOf(T) ==
    IF T = "u8" THEN DecVal(<<50, 53, 53>>)
    ELSE DecVal(<<52, 50, 57, 52, 57, 54, 55, 50, 57, 53>>)

FitsType(v, T) == BigLeq(v, MaxOf(T))

NumCall == pc \in {"read_til_u8", "read_til_u32"}

NumType == IF pc = "read_til_u8" THEN "u8" ELSE "u32"

\* the input is digits up to a whitespace byte or up to its end
DigitsThenEnd(s) ==
    LET n == Len(DigitPrefix(s)) IN n = Len(s) \/ is_ascii_whitespace(s[n + 1])

\* the number of digits read_til has consumed when the value first exceeds T
FirstOverflow(d, T) ==
    CHOOSE j \in 1 .. Len(d) :
        /\ ~FitsType(DecVal(Take(d, j)), T)
        /\ \A i \in 1 .. j - 1 : FitsType(DecVal(Take(d, i)), T)

(***************************************************************************)
(* C7.  Numeric parser overflow boundary: on an input that is digits up to *)
(* a whitespace byte or the end of the input, read_til returns the decimal *)
(* value of the digits when it fits the target type (at most 255 for u8,   *)
(* at most 4294967295 for u32) and fails with Overflow otherwise.          *)
(***************************************************************************)
C7_OverflowBoundary ==
    (NumCall /\ DigitsThenEnd(bytes)) =>
        LET v == DecVal(DigitPrefix(bytes))
        IN  IF FitsType(v, NumType)
            THEN ret = [tag |-> "Ok", val |-> v, err |-> <<>>]
            ELSE ret = [tag |-> "Err", val |-> <<>>, err |-> Err("Overflow")]

\* "256" read as a u8 has failed with Overflow
C7_Witness ==
    /\ pc = "read_til_u8"
    /\ bytes = <<50, 53, 54>>
    /\ ret.tag = "Err"
    /\ ret.err = Err("Overflow")

(***************************************************************************)
(* C8.  Numeric parser error and cursor discipline: when the scan comes to *)
(* a byte b that is neither a digit nor whitespace, read_til fails with    *)
(* NotDigit(b); on success the cursor stands right after the whitespace    *)
(* byte that ended the digits (or at the end of the input), and on an      *)
(* error it stands right after the byte that raised it: it is not put back.*)
(***************************************************************************)
C8_CursorDiscipline ==
    NumCall =>
        LET d == DigitPrefix(bytes)
            n == Len(d)
        IN  IF ~FitsType(DecVal(d), NumType)
            THEN /\ ret = [tag |-> "Err", val |-> <<>>, err |-> Err("Overflow")]
                 /\ x = Drop(bytes, FirstOverflow(d, NumType))
            ELSE IF n = Len(bytes)
            THEN ret.tag = "Ok" /\ x = <<>>
            ELSE IF is_ascii_whitespace(bytes[n + 1])
            THEN ret.tag = "Ok" /\ x = Drop(bytes, n + 1)
            ELSE /\ ret = [tag |-> "Err", val |-> <<>>, err |-> NotDigit(bytes[n + 1])]
                 /\ x = Drop(bytes, n + 1)

\* "25x " read as a u8 has failed with NotDigit('x') and the cursor is left after the x
C8_Witness ==
    /\ pc = "read_til_u8"
    /\ bytes = <<50, 53, 120, 32>>
    /\ ret.err = NotDigit(120)
    /\ x = <<32>>

(***************************************************************************)
(* SpecPpmRaw: an RGB image is encoded by ppm::raw::encode; the bytes, or  *)
(* the bytes cut short, or with more bytes after them, are decoded by      *)
(* ppm::raw::decode                                                        *)
(***************************************************************************)
\* the most pixels of an image, and the sample values drawn for its buffer
MaxPpmPixels == 2

ByteSample == {0, 32, 255}

Dims(maxpixels) ==
    {<<w, h>> \in (1 .. maxpixels) \X (1 .. maxpixels) : w * h <= maxpixels}

PpmImages ==
    UNION {{Image(FromInt(d[1]), FromInt(d[2]), 3, b) : b \in SeqsOf(ByteSample, 3 * d[1] * d[2])}
           : d \in Dims(MaxPpmPixels)}

InitPpmRaw ==
    /\ pc = "start"
    /\ image \in PpmImages
    /\ bytes = <<>>
    /\ x = <<>>
    /\ ret = NoRet
    /\ wrote = 0
    /\ cap = <<>>

\* let bytes = ppm::raw::encode(image)
PpmRawEncode ==
    /\ pc = "start"
    /\ bytes' = ppm_raw_encode(image)
    /\ pc' = "encoded"
    /\ UNCHANGED <<image, x, ret, wrote, cap>>

\* the file is cut short somewhere in its body
PpmRawTruncate ==
    /\ pc = "encoded"
    /\ \E k \in Len(ppm_raw_header(image.width, image.height)) .. Len(bytes) - 1 :
           bytes' = Take(bytes, k)
    /\ pc' = "truncated"
    /\ UNCHANGED <<image, x, ret, wrote, cap>>

\* a byte follows the body
PpmRawExtend ==
    /\ pc = "encoded"
    /\ \E b \in ByteSample : bytes' = Append(bytes, b)
    /\ pc' = "extended"
    /\ UNCHANGED <<image, x, ret, wrote, cap>>

\* ppm::raw::decode(bytes)
PpmRawDecode ==
    /\ pc \in {"encoded", "truncated", "extended"}
    /\ \E r \in Outcomes(ppm_raw_decode(bytes)) :
           /\ ret' = Returned(r)
           /\ wrote' = r.wrote
           /\ cap' = r.cap
    /\ pc' = IF pc = "encoded" THEN "decoded" ELSE "decoded_" \o pc
    /\ UNCHANGED <<image, bytes, x>>

NextPpmRaw == PpmRawEncode \/ PpmRawTruncate \/ PpmRawExtend \/ PpmRawDecode

SpecPpmRaw == InitPpmRaw /\ [][NextPpmRaw]_vars

(***************************************************************************)
(* C1.  Raw PPM round trip: ppm::raw::decode(ppm::raw::encode(image))      *)
(* succeeds and returns the image, whatever the bytes of its buffer are.   *)
(***************************************************************************)
C1_PpmRawRoundTrip ==
    pc = "decoded" => ret = [tag |-> "Ok", val |-> image, err |-> <<>>]

(***************************************************************************)
(* C5.  Truncated raw PPM body: when fewer than width*height*3 bytes       *)
(* follow the header "P6 <width> <height> 255\n" the decode fails with     *)
(* MissingData, and with at least that many it succeeds.                   *)
(***************************************************************************)
C5_PpmRawTruncated ==
    pc \in {"decoded", "decoded_truncated", "decoded_extended"} =>
        LET body == Len(bytes) - Len(ppm_raw_header(image.width, image.height))
        IN  IF body < Len(image.buf)
            THEN ret = [tag |-> "Err", val |-> NoImage, err |-> Err("MissingData")]
            ELSE ret.tag = "Ok"

(***************************************************************************)
(* SpecPbmRaw: a bitmap is encoded by pbm::raw::encode and the bytes are   *)
(* decoded by pbm::raw::decode                                             *)
(***************************************************************************)
\* the most pixels of a bitmap: widths up to 9 with one row, 4 with two rows
MaxPbmPixels == 9

PbmImages ==
    UNION {{Image(FromInt(d[1]), FromInt(d[2]), 1, b) : b \in SeqsOf(BOOLEAN, d[1] * d[2])}
           : d \in Dims(MaxPbmPixels)}

InitPbmRaw ==
    /\ pc = "start"
    /\ image \in PbmImages
    /\ bytes = <<>>
    /\ x = <<>>
    /\ ret = NoRet
    /\ wrote = 0
    /\ cap = <<>>

\* let bytes = pbm::raw::encode(image)
PbmRawEncode ==
    /\ pc = "start"
    /\ bytes' = pbm_raw_encode(image)
    /\ pc' = "encoded"
    /\ UNCHANGED <<image, x, ret, wrote, cap>>

\* pbm::raw::decode(bytes)
PbmRawDecode ==
    /\ pc = "encoded"
    /\ \E r \in Outcomes(pbm_raw_decode(bytes)) :
           /\ ret' = Returned(r)
           /\ wrote' = r.wrote
           /\ cap' = r.cap
    /\ pc' = "decoded"
    /\ UNCHANGED <<image, bytes, x>>

NextPbmRaw == PbmRawEncode \/ PbmRawDecode

SpecPbmRaw == InitPbmRaw /\ [][NextPbmRaw]_vars

(***************************************************************************)
(* C2.  Raw PBM bit-packing round trip: pbm::raw::encode packs every row   *)
(* into ceil(width/8) bytes, and pbm::raw::decode of those bytes succeeds  *)
(* and returns the booleans of the image, whatever its width is.           *)
(***************************************************************************)
C2_PbmRawRoundTrip ==
    /\ pc \in {"encoded", "decoded"} =>
           Len(bytes) = Len(pbm_raw_header(image.width, image.height))
                            + ((ToInt(image.width) + 7) \div 8) * ToInt(image.height)
    /\ pc = "decoded" => ret = [tag |-> "Ok", val |-> image, err |-> <<>>]

(***************************************************************************)
(* SpecBody: every body decoder on a body of any length, for an image of   *)
(* the declared width and height                                           *)
(***************************************************************************)
\* the most pixels of the declared image, and the most pieces of a body
MaxBodyPixels == 2

MaxPieces == 6

\* the pieces a body is made of: "1 " (a sample of an ASCII body, a '1' of an
\* ASCII bitmap), "0", and a byte that is neither a digit nor whitespace
Pieces == {<<49, 32>>, <<48>>, <<255>>}

Bodies == {Concat(ps) : ps \in SeqsUpTo(Pieces, MaxPieces)}

\* the max values handed to ppm::plain::decode_body_into
MaxSample == {255, 1}

InitBody ==
    /\ pc = "start"
    /\ \E d \in Dims(MaxBodyPixels) : image = Image(FromInt(d[1]), FromInt(d[2]), 0, <<>>)
    /\ bytes \in Bodies
    /\ x = <<>>
    /\ ret = NoRet
    /\ wrote = 0
    /\ cap = <<>>

\* pbm::plain::decode_body_into(bytes, Uninit::new(width, height))
PbmPlainDecodeBody ==
    /\ pc = "start"
    /\ \E r \in Outcomes(pbm_plain_decode_body_into(bytes, image.width, image.height)) :
           ret' = Returned(r) /\ wrote' = r.wrote /\ cap' = r.cap
    /\ pc' = "pbm::plain::decode_body_into"
    /\ UNCHANGED <<image, bytes, x>>

\* pbm::plain::decode_body_into_u8(bytes, Uninit::new(width, height))
PbmPlainDecodeBodyU8 ==
    /\ pc = "start"
    /\ \E r \in Outcomes(pbm_plain_decode_body_into_u8(bytes, image.width, image.height)) :
           ret' = Returned(r) /\ wrote' = r.wrote /\ cap' = r.cap
    /\ pc' = "pbm::plain::decode_body_into_u8"
    /\ UNCHANGED <<image, bytes, x>>

\* pbm::raw::decode_body_into(bytes, Uninit::new(width, height))
PbmRawDecodeBody ==
    /\ pc = "start"
    /\ \E r \in Outcomes(pbm_raw_decode_body_into(bytes, image.width, image.height)) :
           ret' = Returned(r) /\ wrote' = r.wrote /\ cap' = r.cap
    /\ pc' = "pbm::raw::decode_body_into"
    /\ UNCHANGED <<image, bytes, x>>

\* pbm::raw::decode_body_into_u8(bytes, Uninit::new(width, height))
PbmRawDecodeBodyU8 ==
    /\ pc = "start"
    /\ \E r \in Outcomes(pbm_raw_decode_body_into_u8(bytes, image.width, image.height)) :
           ret' = Returned(r) /\ wrote' = r.wrote /\ cap' = r.cap
    /\ pc' = "pbm::raw::decode_body_into_u8"
    /\ UNCHANGED <<image, bytes, x>>

\* ppm::plain::decode_body_into(bytes, Uninit::new(width, height), max)
PpmPlainDecodeBody ==
    /\ pc = "start"
    /\ \E max \in MaxSample :
       \E r \in Outcomes(ppm_plain_decode_body_into(bytes, image.width, image.height, max)) :
           ret' = Returned(r) /\ wrote' = r.wrote /\ cap' = r.cap
    /\ pc' = "ppm::plain::decode_body_into"
    /\ UNCHANGED <<image, bytes, x>>

\* ppm::raw::decode_body_into(bytes, Uninit::new(width, height))
PpmRawDecodeBody ==
    /\ pc = "start"
    /\ \E r \in Outcomes(ppm_raw_decode_body_into(bytes, image.width, image.height)) :
           ret' = Returned(r) /\ wrote' = r.wrote /\ cap' = r.cap
    /\ pc' = "ppm::raw::decode_body_into"
    /\ UNCHANGED <<image, bytes, x>>

\* pam::decode_inner(bytes, into, header), into pointing at bytes * width *
\* height bytes
PamDecodeInner ==
    /\ pc = "start"
    /\ \E t \in Type :
       \E r \in {decode_inner(bytes, PAMHeader(image.width, image.height, Type_bytes(t), 255, t))} :
           ret' = Returned(r) /\ wrote' = r.wrote /\ cap' = r.cap
    /\ pc' = "pam::decode_inner"
    /\ UNCHANGED <<image, bytes, x>>

NextBody ==
    \/ PbmPlainDecodeBody
    \/ PbmPlainDecodeBodyU8
    \/ PbmRawDecodeBody
    \/ PbmRawDecodeBodyU8
    \/ PpmPlainDecodeBody
    \/ PpmRawDecodeBody
    \/ PamDecodeInner

SpecBody == InitBody /\ [][NextBody]_vars

(***************************************************************************)
(* C3.  No body decoder writes past its buffer: whatever the body is, the  *)
(* number of elements a body decoder has written is at most the number the *)
(* buffer was allocated for, width * height * channels.                    *)
(***************************************************************************)
C3_NoWritePastBuffer == pc /= "start" => BigLeq(FromInt(wrote), cap)

(***************************************************************************)
(* SpecPamBody: a PAM file of every tupltype with a body of any length up  *)
(* to one byte more than the image needs; the magic is read and the rest   *)
(* is decoded by pam::decode_wo_magic                                      *)
(***************************************************************************)
\* the most pixels of the declared image, and the bytes a body is made of
MaxPamPixels == 2

PamSample == {0, 1}

PamFiles(t) ==
    UNION {{[image |-> Image(FromInt(d[1]), FromInt(d[2]), Channels(t), <<>>),
             bytes |-> pam_header(FromInt(d[1]), FromInt(d[2]), TupltypeName(t), Type_bytes(t)) \o b]
               : b \in SeqsUpTo(PamSample, Type_bytes(t) * d[1] * d[2] + 1)}
           : d \in Dims(MaxPamPixels)}

InitPamBody ==
    /\ pc = "start"
    /\ \E t \in Type : \E f \in PamFiles(t) : image = f.image /\ bytes = f.bytes
    /\ x = bytes
    /\ ret = NoRet
    /\ wrote = 0
    /\ cap = <<>>

\* let magic = magic(&mut x); pam::decode_wo_magic(x)
PamDecodeWoMagic ==
    /\ pc = "start"
    /\ \E m \in {magic(x)} :
       \E r \in Outcomes(pam_decode_wo_magic(m.x)) :
           /\ x' = m.x
           /\ ret' = Returned(r)
           /\ wrote' = r.wrote
           /\ cap' = r.cap
    /\ pc' = "pam::decode_wo_magic"
    /\ UNCHANGED <<image, bytes>>

NextPamBody == PamDecodeWoMagic

SpecPamBody == InitPamBody /\ [][NextPamBody]_vars

(***************************************************************************)
(* C4.  PAM decode never exposes a partially written buffer: for every     *)
(* tupltype, when the body after ENDHDR holds fewer than bytes(tupltype) * *)
(* width * height bytes, pam::decode_wo_magic returns MissingData.         *)
(***************************************************************************)
C4_PamShortBody ==
    pc = "pam::decode_wo_magic" =>
        \A t \in Type :
            LET header == pam_header(image.width, image.height, TupltypeName(t), Type_bytes(t))
            IN  (/\ Take(bytes, Len(header)) = header
                 /\ Len(bytes) - Len(header)
                        < Type_bytes(t) * ToInt(image.width) * ToInt(image.height))
                    => ret = [tag |-> "Err", val |-> NoImage, err |-> Err("MissingData")]

(***************************************************************************)
(* SpecSize: for an image of a width and a height of every number of       *)
(* digits, the length an encoder reserves (size) and the length its        *)
(* encode_into returns                                                      *)
(***************************************************************************)
\* the widths and heights: the powers of ten below 2^32, and u32::MAX
DimSample == {Pow10(k) : k \in 0 .. 9} \cup {MaxOf("u32")}

\* a buffer of that many bytes can exist: at most isize::MAX = 2^63 - 1
FitsIsize(n) == Len(n) < 8 \/ (Len(n) = 8 /\ n[8] < 128)

InitSize ==
    /\ pc = "start"
    /\ \E w \in DimSample, h \in DimSample :
           /\ FitsIsize(ImageLen(w, h, 4))
           /\ image = Image(w, h, 0, <<>>)
    /\ bytes = <<>>
    /\ x = <<>>
    /\ ret = NoRet
    /\ wrote = 0
    /\ cap = <<>>

\* Vec::with_capacity(size(x)); let n = encode_into(x, y.as_mut_ptr())
PbmPlainEncode ==
    /\ pc = "start"
    /\ cap' = pbm_plain_size(image.width, image.height)
    /\ ret' = [tag |-> "Ok", val |-> pbm_plain_encode_into_n(image.width, image.height), err |-> <<>>]
    /\ pc' = "pbm::plain::encode"
    /\ UNCHANGED <<image, bytes, x, wrote>>

PbmRawEncodeLen ==
    /\ pc = "start"
    /\ cap' = pbm_raw_size(image.width, image.height)
    /\ ret' = [tag |-> "Ok", val |-> pbm_raw_encode_into_n(image.width, image.height), err |-> <<>>]
    /\ pc' = "pbm::raw::encode"
    /\ UNCHANGED <<image, bytes, x, wrote>>

PpmPlainEncode ==
    /\ pc = "start"
    /\ cap' = ppm_plain_size(image.width, image.height)
    /\ ret' = [tag |-> "Ok", val |-> ppm_plain_encode_into_n(image.width, image.height), err |-> <<>>]
    /\ pc' = "ppm::plain::encode"
    /\ UNCHANGED <<image, bytes, x, wrote>>

PpmRawEncodeLen ==
    /\ pc = "start"
    /\ cap' = ppm_raw_size(image.width, image.height)
    /\ ret' = [tag |-> "Ok", val |-> ppm_raw_encode_into_n(image.width, image.height), err |-> <<>>]
    /\ pc' = "ppm::raw::encode"
    /\ UNCHANGED <<image, bytes, x, wrote>>

PamEncode ==
    /\ pc = "start"
    /\ \E e \in PamEncoders :
           /\ cap' = pam_size(image.width, image.height, e)
           /\ ret' = [tag |-> "Ok", val |-> pam_encode_into_n(image.width, image.height, e), err |-> <<>>]
           /\ image' = [image EXCEPT !.chan = e.chan]
    /\ pc' = "pam::encode"
    /\ UNCHANGED <<bytes, x, wrote>>

NextSize == PbmPlainEncode \/ PbmRawEncodeLen \/ PpmPlainEncode \/ PpmRawEncodeLen \/ PamEncode

SpecSize == InitSize /\ [][NextSize]_vars

(***************************************************************************)
(* C6.  Encoded length never exceeds the reserved length: for every        *)
(* encoder and every width and height, the number of bytes encode_into     *)
(* returns is at most the value of size() the Vec was reserved with.       *)
(***************************************************************************)
C6_EncodedWithinSize == pc /= "start" => BigLeq(ret.val, cap)

(***************************************************************************)
(* SpecHeader: the magic is read and the header is decoded, by             *)
(* decode_header for the tags 1 to 6 and by decode_pam_header for the tag  *)
(* 7, on headers whose width and height are zero, small, or so large that  *)
(* their product passes u32::MAX, and whose max value may be missing or    *)
(* not a number                                                            *)
(***************************************************************************)
\* "0", "00", "5", "65535", "65536", "65537" (65537 * 65535 = 2^32 - 1)
WidthTokens ==
    {<<48>>, <<48, 48>>, <<53>>, <<54, 53, 53, 51, 53>>, <<54, 53, 53, 51, 54>>,
     <<54, 53, 53, 51, 55>>}

\* the same, and "x", and "4294967296" (one more than u32::MAX)
HeightTokens == WidthTokens \cup {<<120>>, U32Prefix \o <<54>>}

\* what follows the height in a header of the tags 1 to 6: nothing, a max value
\* and data, or a byte that is not a number
ClassicTails == {<<>>, <<50, 53, 53, 10, 0>>, <<120, 10>>}

\* what follows the height in a PAM header: nothing, the rest of a header and
\* data, or a byte that is not a key
PamTails ==
    {<<>>,
     Lit.DEPTH \o <<49, 10>> \o Lit.MAXVAL \o <<50, 53, 53, 10>> \o Lit.TUPLTYPE
         \o Lit.GRAYSCALE \o Lit.ENDHDR \o <<0>>,
     <<120, 10>>}

ClassicFiles ==
    {<<Ascii.P, Ascii.zero + m, Ascii.sp>> \o w \o <<Ascii.sp>> \o h \o <<Ascii.nl>> \o t :
         m \in 1 .. 6, w \in WidthTokens, h \in HeightTokens, t \in ClassicTails}

PamHeaderFiles ==
    {<<Ascii.P, Ascii.zero + pam_MAGIC, Ascii.nl>> \o Lit.WIDTH \o w \o <<Ascii.nl>>
         \o Lit.HEIGHT \o h \o <<Ascii.nl>> \o t :
         w \in WidthTokens, h \in HeightTokens, t \in PamTails}

InitHeader ==
    /\ pc = "start"
    /\ image = NoImage
    /\ bytes \in ClassicFiles \cup PamHeaderFiles
    /\ x = bytes
    /\ ret = NoRet
    /\ wrote = 0
    /\ cap = <<>>

\* let magic = magic(&mut x); decode_header(&mut x, magic)
DecodeHeader ==
    /\ pc = "start"
    /\ \E m \in {magic(x)} :
           /\ m.m[1] = "Some"
           /\ m.m[2] \in 1 .. 6
           /\ \E r \in {decode_header(m.x, m.m[2])} :
                  /\ x' = r.x
                  /\ ret' = Returned(r)
    /\ pc' = "decode_header"
    /\ UNCHANGED <<image, bytes, wrote, cap>>

\* let magic = magic(&mut x); decode_pam_header(&mut x)
DecodePamHeader ==
    /\ pc = "start"
    /\ \E m \in {magic(x)} :
           /\ m.m = Some(pam_MAGIC)
           /\ \E r \in {decode_pam_header(m.x)} :
                  /\ x' = r.x
                  /\ ret' = Returned(r)
    /\ pc' = "decode_pam_header"
    /\ UNCHANGED <<image, bytes, wrote, cap>>

NextHeader == DecodeHeader \/ DecodePamHeader

SpecHeader == InitHeader /\ [][NextHeader]_vars

\* where the width starts in a file: after "P<tag> ", and in a PAM file after
\* the key "WIDTH " too
WidthField == IF pc = "decode_pam_header" THEN Drop(bytes, 3 + Len(Lit.WIDTH)) ELSE Drop(bytes, 3)

\* what follows the width and the byte that ends it
AfterWidth == Drop(WidthField, Len(DigitPrefix(WidthField)) + 1)

\* where the height starts: in a PAM file after the key "HEIGHT "
HeightField == IF pc = "decode_pam_header" THEN Drop(AfterWidth, Len(Lit.HEIGHT)) ELSE AfterWidth

\* what follows the height and the byte that ends it: the max value, the keys
\* DEPTH and MAXVAL, or the data
AfterHeight == Drop(HeightField, Len(DigitPrefix(HeightField)) + 1)

\* the height is a number that fits a u32
HeightIsNumber ==
    DigitsThenEnd(HeightField) /\ FitsType(DecVal(DigitPrefix(HeightField)), "u32")

(***************************************************************************)
(* C9.  Header dimension validation order, in decode_header and in         *)
(* decode_pam_header alike: a width of zero fails with ZeroWidth and the   *)
(* cursor has not gone into the height; else a height of zero fails with   *)
(* ZeroHeight; else a product of width and height above 2^32 - 1 fails     *)
(* with TooLarge and the cursor has not gone past the height, whatever     *)
(* stands where the max value is expected; and no other header fails with  *)
(* one of these three errors.                                              *)
(***************************************************************************)
C9_ValidationOrder ==
    pc \in {"decode_header", "decode_pam_header"} =>
        LET width  == DecVal(DigitPrefix(WidthField))
            height == DecVal(DigitPrefix(HeightField))
        IN  IF width = <<>>
            THEN /\ ret = [tag |-> "Err", val |-> <<>>, err |-> Err("ZeroWidth")]
                 /\ x = AfterWidth
            ELSE IF HeightIsNumber /\ height = <<>>
            THEN /\ ret = [tag |-> "Err", val |-> <<>>, err |-> Err("ZeroHeight")]
                 /\ x = AfterHeight
            ELSE IF HeightIsNumber /\ ~FitsType(BigMul(width, height), "u32")
            THEN /\ ret = [tag |-> "Err", val |-> <<>>, err |-> Err("TooLarge")]
                 /\ x = AfterHeight
            ELSE ret.err \notin {Err("ZeroWidth"), Err("ZeroHeight"), Err("TooLarge")}

\* "P6 65536 65536\nx\n" has failed with TooLarge, the x where the max value
\* should be not read
C9_Witness ==
    /\ pc = "decode_header"
    /\ bytes = <<80, 54, 32, 54, 53, 53, 51, 54, 32, 54, 53, 53, 51, 54, 10, 120, 10>>
    /\ ret.err = Err("TooLarge")
    /\ x = <<120, 10>>

(***************************************************************************)
(* SpecMagic: a file of every tag is handed to the decode of every module  *)
(***************************************************************************)
\* the tags '1' to '7', and '9'
TagBytes == (49 .. 55) \cup {57}

\* what follows the tag and the whitespace after it: nothing; "1 1\n0", a
\* bitmap of one pixel; "1 1 255\n1 1 1 ", a pixmap of one pixel;
\* "WIDTH 1\nHEIGHT 1\nDEPTH 1\nMAXVAL 255\nTUPLTYPE GRAYSCALE\nENDHDR\n" and
\* one byte, the rest of a PAM file
Rests ==
    {<<>>,
     <<49, 32, 49, 10, 48>>,
     <<49, 32, 49, 32, 50, 53, 53, 10, 49, 32, 49, 32, 49, 32>>,
     Drop(pam_header(FromInt(1), FromInt(1), Lit.GRAYSCALE, 1), 3) \o <<0>>}

InitMagic ==
    /\ pc = "start"
    /\ image = NoImage
    /\ \E t \in TagBytes, ws \in {Ascii.sp, Ascii.nl}, r \in Rests :
           bytes = <<Ascii.P, t, ws>> \o r
    /\ x = <<>>
    /\ ret = NoRet
    /\ wrote = 0
    /\ cap = <<>>

\* pbm::plain::decode(bytes)
DecodePbmPlain ==
    /\ pc = "start"
    /\ \E r \in Outcomes(pbm_plain_decode(bytes)) :
           ret' = Returned(r) /\ wrote' = r.wrote /\ cap' = r.cap
    /\ pc' = "pbm::plain"
    /\ UNCHANGED <<image, bytes, x>>

\* pbm::raw::decode(bytes)
DecodePbmRaw ==
    /\ pc = "start"
    /\ \E r \in Outcomes(pbm_raw_decode(bytes)) :
           ret' = Returned(r) /\ wrote' = r.wrote /\ cap' = r.cap
    /\ pc' = "pbm::raw"
    /\ UNCHANGED <<image, bytes, x>>

\* ppm::plain::decode(bytes)
DecodePpmPlain ==
    /\ pc = "start"
    /\ \E r \in Outcomes(ppm_plain_decode(bytes)) :
           ret' = Returned(r) /\ wrote' = r.wrote /\ cap' = r.cap
    /\ pc' = "ppm::plain"
    /\ UNCHANGED <<image, bytes, x>>

\* ppm::raw::decode(bytes)
DecodePpmRaw ==
    /\ pc = "start"
    /\ \E r \in Outcomes(ppm_raw_decode(bytes)) :
           ret' = Returned(r) /\ wrote' = r.wrote /\ cap' = r.cap
    /\ pc' = "ppm::raw"
    /\ UNCHANGED <<image, bytes, x>>

\* pam::decode(bytes)
DecodePam ==
    /\ pc = "start"
    /\ \E r \in Outcomes(pam_decode(bytes)) :
           ret' = Returned(r) /\ wrote' = r.wrote /\ cap' = r.cap
    /\ pc' = "pam"
    /\ UNCHANGED <<image, bytes, x>>

NextMagic == DecodePbmPlain \/ DecodePbmRaw \/ DecodePpmPlain \/ DecodePpmRaw \/ DecodePam

SpecMagic == InitMagic /\ [][NextMagic]_vars

\* the MAGIC of the module whose decode was called
CalledMagic == IF pc = "pam" THEN pam_MAGIC ELSE MAGIC(pc)

\* the file goes on after the tag and the whitespace that follows it
HasHeader == \E i \in 3 .. Len(bytes) : ~is_ascii_whitespace(bytes[i])

(***************************************************************************)
(* C10.  Magic mismatch: the decode of every module, called on a file      *)
(* whose tag is not the MAGIC of the module, fails with                    *)
(* WrongMagic{got: tag, should: MAGIC}.                                    *)
(***************************************************************************)
C10_WrongMagic ==
    (pc /= "start" /\ HasHeader /\ bytes[2] - Ascii.zero /= CalledMagic) =>
        ret = [tag |-> "Err", val |-> NoImage,
               err |-> WrongMagic(bytes[2] - Ascii.zero, CalledMagic)]

(***************************************************************************)
(* src/pgm.rs, as the specification tells it: the graymap modules have the *)
(* tags 2 (plain) and 5 (raw), the header of decode_header with a max      *)
(* value, and a body of one sample a pixel                                 *)
(***************************************************************************)
pgm_plain_MAGIC == 2

pgm_raw_MAGIC == 5

\* pgm::raw::decode_body_into: a direct copy of one byte a pixel
pgm_raw_decode_body_into(s, w, h) ==
    LET pixels == BigMul(w, h)
        out    == Take(s, TakeCount(pixels, Len(s)))
    IN  IF BigLt(FromInt(Len(out)), pixels)
        THEN BodyFail("MissingData", out, pixels)
        ELSE BodyOk(Image(w, h, 1, out), out, pixels)

\* pgm::plain::decode_body_into: the samples of the digit groups, one a pixel
pgm_plain_decode_body_into(s, w, h, max) ==
    LET done(pixels, out) ==
            IF BigLt(FromInt(Len(out)), pixels)
            THEN BodyFail("MissingData", out, pixels)
            ELSE BodyOk(Image(w, h, 1, out), out, pixels)
        taken(pixels, vals) == done(pixels, Take(vals, TakeCount(pixels, Len(vals))))
    IN  taken(BigMul(w, h), ppm_plain_samples(s, max))

\* pgm::raw::decode_wo_magic, the header decoded
pgm_raw_decode_wo_magic_body(header) ==
    IF header.tag = "Err" THEN EarlyFail(header.err)
    ELSE pgm_raw_decode_body_into(header.x, header.val.width, header.val.height)

\* pgm::raw::decode_wo_magic
pgm_raw_decode_wo_magic(s) == pgm_raw_decode_wo_magic_body(decode_header(s, pgm_raw_MAGIC))

\* pgm::plain::decode_wo_magic, the header decoded
pgm_plain_decode_wo_magic_body(header) ==
    IF header.tag = "Err" THEN EarlyFail(header.err)
    ELSE pgm_plain_decode_body_into(header.x, header.val.width, header.val.height,
                                    ToInt(header.val.max[2]))

\* pgm::plain::decode_wo_magic
pgm_plain_decode_wo_magic(s) ==
    pgm_plain_decode_wo_magic_body(decode_header(s, pgm_plain_MAGIC))

(***************************************************************************)
(* src/lib.rs: decode                                                      *)
(***************************************************************************)
\* the pbm arms: decode_header, then decode_body_into_u8 into a new image
decode_pbm_raw(header) ==
    IF header.tag = "Err" THEN EarlyFail(header.err)
    ELSE pbm_raw_decode_body_into_u8(header.x, header.val.width, header.val.height)

decode_pbm_plain(header) ==
    IF header.tag = "Err" THEN EarlyFail(header.err)
    ELSE pbm_plain_decode_body_into_u8(header.x, header.val.width, header.val.height)

\* match magic { ... }
decode_match(m) ==
    IF m.m[1] = "None" THEN EarlyFail(Err("MissingMagic"))
    ELSE CASE m.m[2] = pbm_raw_MAGIC   -> decode_pbm_raw(decode_header(m.x, pbm_raw_MAGIC))
           [] m.m[2] = pbm_plain_MAGIC -> decode_pbm_plain(decode_header(m.x, pbm_plain_MAGIC))
           [] m.m[2] = pgm_raw_MAGIC   -> pgm_raw_decode_wo_magic(m.x)
           [] m.m[2] = pgm_plain_MAGIC -> pgm_plain_decode_wo_magic(m.x)
           [] m.m[2] = ppm_raw_MAGIC   -> dec_fn_decode_wo_magic(m.x, "ppm::raw")
           [] m.m[2] = ppm_plain_MAGIC -> dec_fn_decode_wo_magic(m.x, "ppm::plain")
           [] m.m[2] = pam_MAGIC       -> pam_decode_wo_magic(m.x)
           [] OTHER                    -> EarlyFail(BadMagic(m.m[2]))

\* pnm::decode
decode(s) == decode_match(magic(s))

(***************************************************************************)
(* SpecDecode: pnm::decode on files of every tag byte, cut off after the   *)
(* 'P', after the tag, after the whitespace, or carrying a header and body *)
(***************************************************************************)
\* '/', the digits '0' to '9', and 'A'
DecodeTagBytes == {47, 65} \cup (48 .. 57)

\* the rest of a PAM file of one pixel of every tupltype, with the channels
\* of the variant it is to decode to
PamRests ==
    {[chan  |-> Channels(t),
      bytes |-> Drop(pam_header(FromInt(1), FromInt(1), TupltypeName(t), Type_bytes(t)), 3)
                    \o [i \in 1 .. Type_bytes(t) |-> 1]] : t \in Type}

\* nothing, or the rest of a classic file (as in SpecMagic), with no channels
\* to expect of a PAM decode
ClassicRests == {[chan |-> 0, bytes |-> r] : r \in Rests \ {Drop(pam_header(FromInt(1), FromInt(1), Lit.GRAYSCALE, 1), 3) \o <<0>>}}

DecodeFiles ==
    {[chan |-> 0, bytes |-> b] : b \in {<<>>, <<Ascii.P>>, <<Ascii.sp, 54>>}}
        \cup {[chan |-> 0, bytes |-> <<Ascii.P, t>>] : t \in DecodeTagBytes}
        \cup {[chan |-> r.chan, bytes |-> <<Ascii.P, t, ws>> \o r.bytes]
                 : t \in DecodeTagBytes, ws \in {Ascii.sp, Ascii.nl},
                   r \in PamRests \cup ClassicRests}

InitDecode ==
    /\ pc = "start"
    /\ \E f \in DecodeFiles :
           /\ bytes = f.bytes
           /\ image = Image(FromInt(1), FromInt(1), f.chan, <<>>)
    /\ x = <<>>
    /\ ret = NoRet
    /\ wrote = 0
    /\ cap = <<>>

\* pnm::decode(&bytes)
Decode ==
    /\ pc = "start"
    /\ \E r \in Outcomes(decode(bytes)) :
           ret' = Returned(r) /\ wrote' = r.wrote /\ cap' = r.cap
    /\ pc' = "decode"
    /\ UNCHANGED <<image, bytes, x>>

NextDecode == Decode

SpecDecode == InitDecode /\ [][NextDecode]_vars

\* the input starts with 'P' followed by a tag byte that is a digit or above
TagReadable == Len(bytes) >= 2 /\ bytes[1] = Ascii.P /\ bytes[2] >= Ascii.zero

\* the tag: the byte after 'P', minus '0'
TagOf == bytes[2] - Ascii.zero

\* the channels the dispatch is to give a file of the tag
ChannelsOfTag ==
    CASE TagOf \in {1, 2, 4, 5} -> 1
      [] TagOf \in {3, 6}       -> 3
      [] TagOf = 7              -> image.chan
      [] OTHER                  -> 0

(***************************************************************************)
(* C11.  Top-level dispatch: pnm::decode on input that starts with 'P' and *)
(* a tag byte gives tags 1, 2, 4, 5 a 1-channel result, tags 3 and 6 a     *)
(* 3-channel result, tag 7 the variant of the tupltype, fails with         *)
(* BadMagic(tag) for every other tag, and fails with MissingMagic only     *)
(* when no tag could be read at all.                                       *)
(***************************************************************************)
C11_Dispatch ==
    (pc = "decode" /\ Len(bytes) >= 2 /\ bytes[1] = Ascii.P) =>
        /\ (ret.tag = "Err" /\ ret.err = Err("MissingMagic")) => ~TagReadable
        /\ (TagReadable /\ TagOf \notin 1 .. 7) =>
               ret = [tag |-> "Err", val |-> NoImage, err |-> BadMagic(TagOf)]
        /\ ret.tag = "Ok" => ret.val.chan = ChannelsOfTag

(***************************************************************************)
(* SpecPamHeader: decode_pam_header on headers of an image of 2 by 3 whose *)
(* five keys are each spelled right, without the trailing space, with a    *)
(* lower-case first letter, or replaced by the neighbouring key, whose     *)
(* tupltype is one of the six names or not, and whose end is "\nENDHDR\n", *)
(* cut short, or missing                                                   *)
(***************************************************************************)
\* the keys in the order of the header, and the error of each
PamKeys == <<Lit.WIDTH, Lit.HEIGHT, Lit.DEPTH, Lit.MAXVAL, Lit.TUPLTYPE>>

PamKeyError ==
    <<"MissingWidth", "MissingHeight", "MissingDepth", "MissingMax", "MissingTupltype">>

\* the values after the first four keys: "2\n", "3\n", "1\n", "255\n"
PamValues == <<<<50, 10>>, <<51, 10>>, <<49, 10>>, <<50, 53, 53, 10>>>>

\* the spellings tried for the key i
KeySpellings(i) ==
    {PamKeys[i],
     Take(PamKeys[i], Len(PamKeys[i]) - 1),
     <<PamKeys[i][1] + 32>> \o Tail(PamKeys[i]),
     PamKeys[IF i % 2 = 1 /\ i < 5 THEN i + 1 ELSE i - 1]}

\* the six names, and "RGBA", "GRAY", "RGB " and "" that are none of them
TupltypeSpellings ==
    {TupltypeName(t) : t \in Type}
        \cup {<<82, 71, 66, 65>>, <<71, 82, 65, 89>>, <<82, 71, 66, 32>>, <<>>}

\* "\nENDHDR\n" and a byte of data; "\nENDHDR" at the end of the input; a
\* line feed and data; nothing (no line feed ends the name)
HeaderEnds == {Lit.ENDHDR \o <<0>>, Take(Lit.ENDHDR, 7), <<10, 0>>, <<>>}

PamKeyFiles ==
    {k1 \o PamValues[1] \o k2 \o PamValues[2] \o k3 \o PamValues[3]
         \o k4 \o PamValues[4] \o k5 \o n \o e :
         k1 \in KeySpellings(1), k2 \in KeySpellings(2), k3 \in KeySpellings(3),
         k4 \in KeySpellings(4), k5 \in KeySpellings(5),
         n \in TupltypeSpellings, e \in HeaderEnds}

InitPamHeader ==
    /\ pc = "start"
    /\ image = NoImage
    /\ bytes \in PamKeyFiles
    /\ x = bytes
    /\ ret = NoRet
    /\ wrote = 0
    /\ cap = <<>>

\* decode_pam_header(&mut x)
DecodePamHeaderKeys ==
    /\ pc = "start"
    /\ \E r \in {decode_pam_header(x)} :
           /\ x' = r.x
           /\ ret' = Returned(r)
    /\ pc' = "decode_pam_header"
    /\ UNCHANGED <<image, bytes, wrote, cap>>

NextPamHeader == DecodePamHeaderKeys

SpecPamHeader == InitPamHeader /\ [][NextPamHeader]_vars

\* the input starts with the literal
StartsWith(s, lit) == Len(s) >= Len(lit) /\ Take(s, Len(lit)) = lit

\* the input after a value and the one whitespace byte that ends it
RECURSIVE AfterValue(_)
AfterValue(s) ==
    IF s = <<>> THEN s
    ELSE IF is_ascii_whitespace(Head(s)) THEN Tail(s) ELSE AfterValue(Tail(s))

\* the input where the key i is to stand: after the keys and values before it
RECURSIVE KeyPlace(_, _)
KeyPlace(s, i) ==
    IF i = 1 THEN s ELSE AfterValue(Drop(KeyPlace(s, i - 1), Len(PamKeys[i - 1])))

\* the keys before the key i are all in their places
KeysBefore(s, i) == \A j \in 1 .. i - 1 : StartsWith(KeyPlace(s, j), PamKeys[j])

\* the tupltype name: what follows the key TUPLTYPE up to the line feed
RECURSIVE UpToNl(_)
UpToNl(s) == IF s = <<>> \/ Head(s) = Ascii.nl THEN <<>> ELSE <<Head(s)>> \o UpToNl(Tail(s))

NamePlace(s) == Drop(KeyPlace(s, 5), Len(Lit.TUPLTYPE))

HasNl(s) == \E i \in 1 .. Len(s) : s[i] = Ascii.nl

KnownName(s) == HasNl(NamePlace(s)) /\ \E t \in Type : TupltypeName(t) = UpToNl(NamePlace(s))

ErrOf(e) == [tag |-> "Err", val |-> <<>>, err |-> Err(e)]

(***************************************************************************)
(* C12.  Tagged-tuple header strictness: decode_pam_header accepts only    *)
(* the keys WIDTH, HEIGHT, DEPTH, MAXVAL, TUPLTYPE in that order, each     *)
(* verbatim with its trailing space; the first key that does not match     *)
(* fails with the error of that key, an unknown tupltype name fails with   *)
(* MissingTupltype, a missing "\nENDHDR\n" fails with MissingData, and a   *)
(* header with HEIGHT before WIDTH fails with MissingWidth.                *)
(***************************************************************************)
C12_PamHeaderStrict ==
    pc = "decode_pam_header" =>
        /\ \A i \in 1 .. 5 :
               (KeysBefore(bytes, i) /\ ~StartsWith(KeyPlace(bytes, i), PamKeys[i]))
                   => ret = ErrOf(PamKeyError[i])
        /\ (KeysBefore(bytes, 6) /\ ~KnownName(bytes)) => ret = ErrOf("MissingTupltype")
        /\ (/\ KeysBefore(bytes, 6)
            /\ KnownName(bytes)
            /\ ~StartsWith(Drop(NamePlace(bytes), Len(UpToNl(NamePlace(bytes)))), Lit.ENDHDR))
               => ret = ErrOf("MissingData")
        /\ ret.tag = "Ok" =>
               /\ KeysBefore(bytes, 6)
               /\ KnownName(bytes)
               /\ StartsWith(Drop(NamePlace(bytes), Len(UpToNl(NamePlace(bytes)))), Lit.ENDHDR)
               /\ TupltypeName(ret.val.tupltype) = UpToNl(NamePlace(bytes))

\* a header with HEIGHT before WIDTH was decoded, and failed with MissingWidth
C12_Witness ==
    /\ pc = "decode_pam_header"
    /\ StartsWith(bytes, Lit.HEIGHT \o PamValues[1] \o Lit.WIDTH)
    /\ ret = ErrOf("MissingWidth")

(***************************************************************************)
(* SpecGap: the magic is read and decode_header decodes a header whose     *)
(* fields are valid and set apart by one or more whitespace bytes          *)
(***************************************************************************)
\* the most whitespace bytes between two fields
MaxGap == 2

\* space, line feed, tab
GapBytes == {Ascii.sp, Ascii.nl, 9}

Gaps == SeqsUpTo(GapBytes, MaxGap) \ {<<>>}

\* "P<m> <width><gap><height><gap><max>\n" and a byte of data ("x"); the tags
\* 1 and 4 have no max value
GapFiles ==
    {<<Ascii.P, Ascii.zero + m, Ascii.sp>> \o w \o g1 \o <<50>>
         \o (IF m \in {1, 4} THEN <<>> ELSE g2 \o mx) \o <<Ascii.nl, 120>> :
         m \in 1 .. 6, w \in {<<49>>, <<49, 50>>}, g1 \in Gaps, g2 \in Gaps,
         mx \in {<<50, 53, 53>>, <<55>>}}

InitGap ==
    /\ pc = "start"
    /\ image = NoImage
    /\ bytes \in GapFiles
    /\ x = bytes
    /\ ret = NoRet
    /\ wrote = 0
    /\ cap = <<>>

\* let magic = magic(&mut x); decode_header(&mut x, magic)
DecodeHeaderGaps ==
    /\ pc = "start"
    /\ \E m \in {magic(x)} :
       \E r \in {decode_header(m.x, m.m[2])} :
           /\ x' = r.x
           /\ ret' = Returned(r)
    /\ pc' = "decode_header"
    /\ UNCHANGED <<image, bytes, wrote, cap>>

NextGap == DecodeHeaderGaps

SpecGap == InitGap /\ [][NextGap]_vars

\* the input with every run of whitespace cut down to its first byte
RECURSIVE OneGap(_)
OneGap(s) ==
    IF Len(s) < 2 THEN s
    ELSE IF is_ascii_whitespace(s[1]) /\ is_ascii_whitespace(s[2])
    THEN OneGap(<<s[1]>> \o Drop(s, 2))
    ELSE <<s[1]>> \o OneGap(Tail(s))

\* the header of the file whose fields are one whitespace byte apart
HeaderOfOneGap == decode_header(magic(OneGap(bytes)).x, bytes[2] - Ascii.zero)

\* a gap of more than one byte between width and height or height and max
ExtraGap == \E i \in 4 .. Len(bytes) - 2 :
                is_ascii_whitespace(bytes[i]) /\ is_ascii_whitespace(bytes[i + 1])

(***************************************************************************)
(* C13.  Classic header whitespace: decode_header accepts one or more      *)
(* whitespace bytes between width and height and between height and max    *)
(* value; for every valid header, extra whitespace between these fields    *)
(* gives the same Header (width, height, max) and no error.                *)
(***************************************************************************)
C13_ExtraWhitespace ==
    (pc = "decode_header" /\ HeaderOfOneGap.tag = "Ok") =>
        /\ ret.tag = "Ok"
        /\ ret.val = HeaderOfOneGap.val

(***************************************************************************)
(* src/pam.rs: encode_into with its body, and the encoders                 *)
(***************************************************************************)
\* (mutation of x ^ 1: the byte is written as it is)
xor_none(b) == b

\* x ^ 1
xor_one(b) == IF b % 2 = 0 THEN b + 1 ELSE b - 1

\* (mutation of encode_into: every tupltype is written as BLACKANDWHITE is)
pam_encode_into_out_all_xor(buf, w, h, tupltype, depth) ==
    pam_header(w, h, tupltype, depth) \o [i \in 1 .. Len(buf) |-> xor_one(buf[i])]

\* encode_into: the bytes written at `out`, the header and then the buffer,
\* each byte ^ 1 under BLACKANDWHITE and copied under every other tupltype
pam_encode_into_out(buf, w, h, tupltype, depth) ==
    pam_header(w, h, tupltype, depth)
        \o (IF tupltype = Lit.BLACKANDWHITE THEN [i \in 1 .. Len(buf) |-> xor_one(buf[i])]
            ELSE buf)

\* PAM::encode and PAMBit::encode_bitmap: the Vec of capacity size() that
\* encode_into wrote, its length set to what encode_into returned
pam_encode(img, e) == pam_encode_into_out(img.buf, img.width, img.height, e.tupltype, e.depth)

(***************************************************************************)
(* SpecPamRound: an image of 1 to 4 channels is encoded by pam::encode, a  *)
(* boolean image by pam::encode_bitmap, and the file is decoded again by   *)
(* pam::decode                                                             *)
(***************************************************************************)
\* the most bytes of the buffer of an image
MaxRoundBytes == 5

\* samples of a u8 image (10 is the line feed); a boolean image holds 0
\* (false) and 1 (true)
RoundSample == {0, 1, 10}

BoolSample == {0, 1}

RoundImagesOf(n) ==
    UNION {{Image(FromInt(d[1]), FromInt(d[2]), n, b) : b \in SeqsOf(RoundSample, n * d[1] * d[2])}
           : d \in Dims(MaxRoundBytes \div n)}

RoundImages == UNION {RoundImagesOf(n) : n \in 1 .. 4}

IsBoolImage(img) == img.chan = 1 /\ \A i \in 1 .. Len(img.buf) : img.buf[i] \in BoolSample

InitPamRound ==
    /\ pc = "start"
    /\ image \in RoundImages
    /\ bytes = <<>>
    /\ x = <<>>
    /\ ret = NoRet
    /\ wrote = 0
    /\ cap = <<>>

\* let bytes = pam::encode(image)
PamEncodeImage ==
    /\ pc = "start"
    /\ \E e \in PamEncoders :
           /\ e.name = "encode"
           /\ e.chan = image.chan
           /\ bytes' = pam_encode(image, e)
    /\ pc' = "encode"
    /\ UNCHANGED <<image, x, ret, wrote, cap>>

\* let bytes = pam::encode_bitmap(image)
PamEncodeBitmap ==
    /\ pc = "start"
    /\ IsBoolImage(image)
    /\ \E e \in PamEncoders :
           /\ e.name = "encode_bitmap"
           /\ bytes' = pam_encode(image, e)
    /\ pc' = "encode_bitmap"
    /\ UNCHANGED <<image, x, ret, wrote, cap>>

\* pam::decode(bytes)
PamDecodeEncoded ==
    /\ pc \in {"encode", "encode_bitmap"}
    /\ \E r \in Outcomes(pam_decode(bytes)) :
           /\ ret' = Returned(r)
           /\ wrote' = r.wrote
           /\ cap' = r.cap
    /\ pc' = "decode_" \o pc
    /\ UNCHANGED <<image, bytes, x>>

NextPamRound == PamEncodeImage \/ PamEncodeBitmap \/ PamDecodeEncoded

SpecPamRound == InitPamRound /\ [][NextPamRound]_vars

DepthAt ==
    Len(<<Ascii.P, pam_MAGIC + Ascii.zero>>
            \o <<Ascii.nl>> \o Lit.WIDTH \o encodeu32(image.width)
            \o <<Ascii.nl>> \o Lit.HEIGHT \o encodeu32(image.height)
            \o <<Ascii.nl>> \o Lit.DEPTH) + 1

\* the bytes after "\nENDHDR\n" in the file
RECURSIVE AfterEndhdr(_)
AfterEndhdr(s) ==
    IF s = <<>> THEN s
    ELSE IF StartsWith(s, Lit.ENDHDR) THEN Drop(s, Len(Lit.ENDHDR))
    ELSE AfterEndhdr(Tail(s))

\* the name after "TUPLTYPE " in the file
RECURSIVE NameInFile(_)
NameInFile(s) ==
    IF s = <<>> THEN s
    ELSE IF StartsWith(s, Lit.TUPLTYPE) THEN UpToNl(Drop(s, Len(Lit.TUPLTYPE)))
    ELSE NameInFile(Tail(s))

(***************************************************************************)
(* C15.  PAM encode writes a DEPTH equal to the number of bytes a pixel of *)
(* the body it writes: 1 for GRAYSCALE and BLACKANDWHITE, 2 for            *)
(* GRAYSCALE_ALPHA, 3 for RGB and 4 for RGB_ALPHA.                         *)
(***************************************************************************)
C15_DepthIsBytesPerPixel ==
    pc \in {"encode", "encode_bitmap"} =>
        /\ (bytes[DepthAt] - Ascii.zero) * ToInt(image.width) * ToInt(image.height)
               = Len(AfterEndhdr(bytes))
        /\ bytes[DepthAt] - Ascii.zero
               = (CASE NameInFile(bytes) = Lit.GRAYSCALE               -> 1
                    [] NameInFile(bytes) = Lit.BLACKANDWHITE           -> 1
                    [] NameInFile(bytes) = Lit.GRAYSCALE \o Lit.ALPHA  -> 2
                    [] NameInFile(bytes) = Lit.RGB                     -> 3
                    [] NameInFile(bytes) = Lit.RGB \o Lit.ALPHA        -> 4)

(***************************************************************************)
(* SpecPamExpand: pam::decode on a file of every tupltype whose body holds *)
(* as many bytes as the header declares                                    *)
(***************************************************************************)
\* the most pixels of the declared image
MaxExpandPixels == 1

\* the stored bytes: 0, 1, and 2, a byte that is neither
ExpandSample == {0, 1, 2}

ExpandFiles ==
    UNION {{pam_header(FromInt(d[1]), FromInt(d[2]), TupltypeName(t), Type_bytes(t)) \o b
               : b \in SeqsOf(ExpandSample, Type_bytes(t) * d[1] * d[2])}
           : d \in Dims(MaxExpandPixels), t \in Type}

InitPamExpand ==
    /\ pc = "start"
    /\ image = NoImage
    /\ bytes \in ExpandFiles
    /\ x = <<>>
    /\ ret = NoRet
    /\ wrote = 0
    /\ cap = <<>>

\* pam::decode(bytes)
PamDecodeBody ==
    /\ pc = "start"
    /\ \E r \in Outcomes(pam_decode(bytes)) :
           /\ ret' = Returned(r)
           /\ wrote' = r.wrote
           /\ cap' = r.cap
    /\ pc' = "pam::decode"
    /\ UNCHANGED <<image, bytes, x>>

NextPamExpand == PamDecodeBody

SpecPamExpand == InitPamExpand /\ [][NextPamExpand]_vars

\* the file is of a boolean tupltype
BoolTupltype ==
    NameInFile(bytes) \in {Lit.BLACKANDWHITE, Lit.BLACKANDWHITE \o Lit.ALPHA}

(***************************************************************************)
(* C16.  PAM boolean expansion on decode: under BLACKANDWHITE and          *)
(* BLACKANDWHITE_ALPHA every stored body byte, the interleaved alpha byte  *)
(* included, decodes to 0xFF when it is 1 and to 0 when it is any other    *)
(* value; the other four tupltypes are copied byte for byte.               *)
(***************************************************************************)
C16_BoolExpansion ==
    (pc = "pam::decode" /\ ret.tag = "Ok") =>
        /\ Len(ret.val.buf) = Len(AfterEndhdr(bytes))
        /\ \A i \in 1 .. Len(ret.val.buf) :
               ret.val.buf[i] = IF BoolTupltype
                                THEN (IF AfterEndhdr(bytes)[i] = 1 THEN 255 ELSE 0)
                                ELSE AfterEndhdr(bytes)[i]

(***************************************************************************)
(* SpecRescale: ppm::plain::decode on the file of one pixel                *)
(* "P3 1 1 <max>\n<v> <v> <v>\n", for every max value from 1 to 255 and    *)
(* every sample v from 0 to max                                            *)
(***************************************************************************)
RECURSIVE Digits(_)
\* the decimal digits of a number
Digits(n) == IF n < 10 THEN <<Ascii.zero + n>> ELSE Digits(n \div 10) \o <<Ascii.zero + (n % 10)>>

\* "P3 1 1 "
RescalePrefix == <<Ascii.P, Ascii.zero + ppm_plain_MAGIC, Ascii.sp, 49, Ascii.sp, 49, Ascii.sp>>

RescaleFile(max, v) ==
    RescalePrefix \o Digits(max) \o <<Ascii.nl>>
        \o Digits(v) \o <<Ascii.sp>> \o Digits(v) \o <<Ascii.sp>> \o Digits(v) \o <<Ascii.nl>>

\* image holds the samples the file spells
InitRescale ==
    /\ pc = "start"
    /\ \E max \in Byte \ {0} : \E v \in 0 .. max :
           /\ bytes = RescaleFile(max, v)
           /\ image = Image(FromInt(1), FromInt(1), 3, <<v, v, v>>)
    /\ x = <<>>
    /\ ret = NoRet
    /\ wrote = 0
    /\ cap = <<>>

\* ppm::plain::decode(bytes)
PpmPlainDecodeSamples ==
    /\ pc = "start"
    /\ \E r \in Outcomes(ppm_plain_decode(bytes)) :
           /\ ret' = Returned(r)
           /\ wrote' = r.wrote
           /\ cap' = r.cap
    /\ pc' = "ppm::plain::decode"
    /\ UNCHANGED <<image, bytes, x>>

NextRescale == PpmPlainDecodeSamples

SpecRescale == InitRescale /\ [][NextRescale]_vars

\* the max value the header of the file spells
MaxInFile == ToInt(DecVal(DigitPrefix(Drop(bytes, Len(RescalePrefix)))))

\* n / d rounded to the nearest integer, halves upwards
Round(n, d) == (2 * n + d) \div (2 * d)

(***************************************************************************)
(* C17.  ASCII PPM sample rescaling: for every max value other than 255    *)
(* (and at least 1) and every sample v in 0..max,                          *)
(* ppm::plain::decode_body_into stores round(v * 255 / max); with the max  *)
(* value 255 the sample is stored as it is.                                *)
(***************************************************************************)
C17_RescaleRounds ==
    pc = "ppm::plain::decode" =>
        /\ ret.tag = "Ok"
        /\ \A i \in 1 .. 3 :
               ret.val.buf[i] = IF MaxInFile = 255 THEN image.buf[i]
                                ELSE Round(image.buf[i] * 255, MaxInFile)

(***************************************************************************)
(* SpecBoundary: the magic is read and decode_header decodes a header of   *)
(* width 1 and height 2 (and max value 255) that is followed by nothing,   *)
(* or by one whitespace byte, a block of further whitespace bytes, and     *)
(* data or the end of the input                                            *)
(***************************************************************************)
\* the most whitespace bytes after the one that ends the last field
MaxBlock == 2

\* tab, line feed, form feed, carriage return, space
Whitespace == {9, 10, 12, 13, 32}

\* "P<m> 1 2", and " 255" for the tags that have a max value
BoundaryHead(m) ==
    <<Ascii.P, Ascii.zero + m, Ascii.sp, 49, Ascii.sp, 50>>
        \o (IF m \in {1, 4} THEN <<>> ELSE <<Ascii.sp, 50, 53, 53>>)

\* what follows the block: nothing, "x", or "x "
BoundaryData == {<<>>, <<120>>, <<120, Ascii.sp>>}

BoundaryFiles ==
    {BoundaryHead(m) : m \in 1 .. 6}
        \cup {BoundaryHead(m) \o <<t>> \o b \o d :
                 m \in 1 .. 6, t \in Whitespace, b \in SeqsUpTo(Whitespace, MaxBlock),
                 d \in BoundaryData}

InitBoundary ==
    /\ pc = "start"
    /\ image = NoImage
    /\ bytes \in BoundaryFiles
    /\ x = bytes
    /\ ret = NoRet
    /\ wrote = 0
    /\ cap = <<>>

\* let magic = magic(&mut x); decode_header(&mut x, magic)
DecodeHeaderBoundary ==
    /\ pc = "start"
    /\ \E m \in {magic(x)} :
       \E r \in {decode_header(m.x, m.m[2])} :
           /\ x' = r.x
           /\ ret' = Returned(r)
    /\ pc' = "decode_header"
    /\ UNCHANGED <<image, bytes, wrote, cap>>

NextBoundary == DecodeHeaderBoundary

SpecBoundary == InitBoundary /\ [][NextBoundary]_vars

\* the input after the digits of the last field of the header
AfterFields == Drop(bytes, Len(BoundaryHead(bytes[2] - Ascii.zero)))

\* the input from its first byte that is not whitespace
RECURSIVE FirstData(_)
FirstData(s) ==
    IF s = <<>> THEN s
    ELSE IF Head(s) \in Whitespace THEN FirstData(Tail(s)) ELSE s

\* the header decode_header is to return
BoundaryHeader ==
    Header(bytes[2] - Ascii.zero, FromInt(1), FromInt(2),
           IF bytes[2] - Ascii.zero \in {1, 4} THEN None ELSE Some(FromInt(255)))

(***************************************************************************)
(* C18.  Header-to-body boundary: for the raw bitmap tag (4) decode_header *)
(* leaves the cursor exactly one byte after the height digits, so a first  *)
(* body byte that is a whitespace value (9, 10, 12, 13, 32) is kept as     *)
(* pixel data; for every other tag it skips the whole block of whitespace  *)
(* before the data, and fails with MissingData when the input ends there.  *)
(***************************************************************************)
C18_HeaderBodyBoundary ==
    pc = "decode_header" =>
        IF bytes[2] - Ascii.zero = 4
        THEN /\ ret = [tag |-> "Ok", val |-> BoundaryHeader, err |-> <<>>]
             /\ x = Drop(AfterFields, 1)
        ELSE IF FirstData(AfterFields) = <<>>
        THEN /\ ret = ErrOf("MissingData")
        ELSE /\ ret = [tag |-> "Ok", val |-> BoundaryHeader, err |-> <<>>]
             /\ x = FirstData(AfterFields)

\* a raw bitmap whose first body byte is a space: the byte is left to the body
C18_Witness ==
    /\ pc = "decode_header"
    /\ bytes = BoundaryHead(4) \o <<Ascii.nl, Ascii.sp, 120>>
    /\ ret.tag = "Ok"
    /\ x = <<Ascii.sp, 120>>

=============================================================================
